---- MODULE Spec2Model ----
\* Verification model of the shazoom audio-identification engine:
\* the pair combiner and hasher (src/audio-fingerprint.py), the index
\* builders (src/db_pipeline/fingerprint_db.py, fingerprint_db_2.py) and
\* the matchers (src/song_matcher.py, src/song-matcher.py).
\*
\* Audio is abstracted to what create_audio_fingerprint extracts from it: the
\* boolean peak mask over (freq, time) cells.  Everything downstream of the
\* mask is modelled as the code computes it.
EXTENDS Integers, Sequences, FiniteSets, TLC

VARIABLES
    mp3_files,          \* os.listdir order of the folder last given to create_fingerprint_database
    pickle_file,        \* database/fingerprint_db.pkl : None or the pickled dict
    metadata_file,      \* database/tracks_metadata.json : None or the JSON object
    metadata_spotify,   \* metadata_spotify.json as last given to append_fingerprints
    built_by,           \* None, or the script that last wrote the pickle and the target zone it used
    append_runs,        \* number of append_fingerprints runs so far
    fingerprint_db,     \* song_matcher.fingerprint_db (module global)
    tracks_metadata,    \* song_matcher.tracks_metadata (module global)
    db_last_loaded,     \* song_matcher.db_last_loaded (module global)
    clock,              \* what time.time() returns
    fingerprint_pairs,  \* argument of the last match_song call
    match_counts,       \* match_song's local dicts match_counts / matched_hashes at its end
    best_track_id,      \* match_song's local best_track_id at its end
    result,             \* what the last match_song call returned
    outcome,            \* "idle", "returned" or "raised" for the last match_song call
    call,               \* None, or the last direct call of a function of audio-fingerprint.py
    returned,           \* what that call returned
    callers             \* the threads of the matcher process inside load_databases

vars == <<mp3_files, pickle_file, metadata_file, metadata_spotify, append_runs, fingerprint_db, tracks_metadata,
          db_last_loaded, clock, fingerprint_pairs, match_counts, best_track_id,
          result, outcome, built_by, call, returned, callers>>

----------------------------------------------------------------------------
\* Python values

\* None and "a value" are told apart by length: None is the empty tuple.
None == << >>

Some(x) == <<x>>

\* A track id is an int (create_fingerprint_database) or a str (JSON keys,
\* append_fingerprints); 1 and "1" are different values, as in Python.
IntId(n) == <<"int", n>>

StrId(n) == <<"str", n>>

\* str(track_id): the decimal string of an int, a str unchanged
Str(track_id) == <<"str", track_id[2]>>

\* the empty dict
EmptyDict == [k \in {} |-> 0]

----------------------------------------------------------------------------
\* Program constants

TARGET_ZONE_FRAMES == 50

FREQ_BIN == 2

TIME_BIN == 2

ALIGN_BIN == 3

FIELD_LIMIT == 1024

DB_CACHE_DURATION == 3600

\* band_edges for freq_bins = 513, num_bands = 6: logspace(0, log10(512), 7) cast to int, first edge forced to 0
BandEdges == <<0, 2, 8, 22, 64, 181, 512>>

\* index of the band [BandEdges[i], BandEdges[i+1]) holding frequency bin f, 0 if none
BandOf(f) ==
    IF \E i \in 1..6 : BandEdges[i] <= f /\ f < BandEdges[i + 1]
    THEN CHOOSE i \in 1..6 : BandEdges[i] <= f /\ f < BandEdges[i + 1]
    ELSE 0

----------------------------------------------------------------------------
\* src/audio-fingerprint.py

RECURSIVE ArgWhere(_)
\* np.argwhere(peak_mask) over a [freq, time] matrix, then the (time, freq)
\* swap of the list comprehension: cells in row-major order, freq first.
ArgWhere(mask) ==
    IF mask = {} THEN << >>
    ELSE LET c == CHOOSE c \in mask : \A d \in mask :
                      c[1] < d[1] \/ (c[1] = d[1] /\ c[2] <= d[2])
         IN  <<<<c[2], c[1]>>>> \o ArgWhere(mask \ {c})

RECURSIVE InsertByTime(_, _)
\* insert peak p after every peak whose time is <= its own (stable)
InsertByTime(sorted, p) ==
    IF sorted = << >> THEN <<p>>
    ELSE IF Head(sorted)[1] <= p[1]
         THEN <<Head(sorted)>> \o InsertByTime(Tail(sorted), p)
         ELSE <<p>> \o sorted

RECURSIVE SortedPeaks(_)
\* sorted(fingerprint, key=lambda x: x[0]): stable sort by time
SortedPeaks(fingerprint) ==
    IF fingerprint = << >> THEN << >>
    ELSE InsertByTime(SortedPeaks(SubSeq(fingerprint, 1, Len(fingerprint) - 1)),
                      fingerprint[Len(fingerprint)])

RECURSIVE TargetScanAll(_, _, _, _)
\* an inner loop that never breaks: every later peak is a target
TargetScanAll(sorted_peaks, i, j, target_zone_frames) ==
    IF j > Len(sorted_peaks) THEN << >>
    ELSE <<<<sorted_peaks[i][2], sorted_peaks[j][2],
             sorted_peaks[j][1] - sorted_peaks[i][1], sorted_peaks[i][1]>>>>
         \o TargetScanAll(sorted_peaks, i, j + 1, target_zone_frames)

RECURSIVE TargetScanExclusive(_, _, _, _)
\* an inner loop that breaks one frame early, at time_diff >= target_zone_frames
TargetScanExclusive(sorted_peaks, i, j, target_zone_frames) ==
    IF j > Len(sorted_peaks) THEN << >>
    ELSE LET time_diff == sorted_peaks[j][1] - sorted_peaks[i][1]
         IN  IF time_diff >= target_zone_frames THEN << >>
             ELSE <<<<sorted_peaks[i][2], sorted_peaks[j][2], time_diff, sorted_peaks[i][1]>>>>
                  \o TargetScanExclusive(sorted_peaks, i, j + 1, target_zone_frames)

RECURSIVE TargetScan(_, _, _, _)
\* the inner loop over j for anchor i: stops at the first target out of zone
TargetScan(sorted_peaks, i, j, target_zone_frames) ==
    IF j > Len(sorted_peaks) THEN << >>
    ELSE LET time_diff == sorted_peaks[j][1] - sorted_peaks[i][1]
         IN  IF time_diff > target_zone_frames THEN << >>
             ELSE <<<<sorted_peaks[i][2], sorted_peaks[j][2], time_diff, sorted_peaks[i][1]>>>>
                  \o TargetScan(sorted_peaks, i, j + 1, target_zone_frames)

RECURSIVE AnchorScan(_, _, _)
\* the outer loop over anchors i
AnchorScan(sorted_peaks, i, target_zone_frames) ==
    IF i > Len(sorted_peaks) THEN << >>
    ELSE TargetScan(sorted_peaks, i, i + 1, target_zone_frames)
         \o AnchorScan(sorted_peaks, i + 1, target_zone_frames)

\* pairing the peaks in the order given, without sorting them by time
create_fingerprint_pairs_unsorted(fingerprint, target_zone_frames) ==
    AnchorScan(fingerprint, 1, target_zone_frames)

\* create_fingerprint_pairs(fingerprint, target_zone_frames)[0]: records
\* (f_anchor, f_target, dt, t_anchor)
create_fingerprint_pairs(fingerprint, target_zone_frames) ==
    AnchorScan(SortedPeaks(fingerprint), 1, target_zone_frames)

RECURSIVE BitOr(_, _)
\* a | b on Python ints (two's complement, -1 is all ones): ten bits at a
\* time where one operand has its low ten bits clear, bit by bit otherwise
BitOr(a, b) ==
    IF a = 0 THEN b
    ELSE IF b = 0 THEN a
    ELSE IF a = -1 \/ b = -1 THEN -1
    ELSE IF a % 1024 = 0 THEN (b % 1024) + 1024 * BitOr(a \div 1024, b \div 1024)
    ELSE IF b % 1024 = 0 THEN (a % 1024) + 1024 * BitOr(a \div 1024, b \div 1024)
    ELSE (IF a % 2 = 1 \/ b % 2 = 1 THEN 1 ELSE 0) + 2 * BitOr(a \div 2, b \div 2)

\* a << n
ShiftLeft(a, n) == a * 2^n

\* a key whose freq2 is not shifted: (0, 2, 0) and (0, 0, 2) share a key
hash_function_unshifted(freq1, freq2, delta_t) ==
    BitOr(BitOr(ShiftLeft(freq1, 20), freq2), delta_t)

hash_function(freq1, freq2, delta_t) ==
    BitOr(BitOr(ShiftLeft(freq1, 20), ShiftLeft(freq2, 10)), delta_t)

\* a quantiser that keeps the value: with it 201 and 200 no longer share a key
quantize_value_exact(value, bin_size) == value

quantize_value(value, bin_size) == (value \div bin_size) * bin_size

\* a filter that keeps every variation
InRangeAny(v) == TRUE

\* keep the variations whose three fields are all in [0, 1024)
InRange(v) ==
    /\ 0 <= v[1] /\ v[1] < FIELD_LIMIT
    /\ 0 <= v[2] /\ v[2] < FIELD_LIMIT
    /\ 0 <= v[3] /\ v[3] < FIELD_LIMIT

\* the neighbourhood without its three downward steps
VariationsUpward(q_freq1, q_freq2, q_delta_t, freq_bin, time_bin) ==
    << <<q_freq1 + freq_bin, q_freq2, q_delta_t>>,
       <<q_freq1, q_freq2 + freq_bin, q_delta_t>>,
       <<q_freq1, q_freq2, q_delta_t + time_bin>> >>

\* the six one-step variations, in the order of the list literal
Variations(q_freq1, q_freq2, q_delta_t, freq_bin, time_bin) ==
    << <<q_freq1 + freq_bin, q_freq2, q_delta_t>>,
       <<q_freq1 - freq_bin, q_freq2, q_delta_t>>,
       <<q_freq1, q_freq2 + freq_bin, q_delta_t>>,
       <<q_freq1, q_freq2 - freq_bin, q_delta_t>>,
       <<q_freq1, q_freq2, q_delta_t + time_bin>>,
       <<q_freq1, q_freq2, q_delta_t - time_bin>> >>

get_nearby_hashes(freq1, freq2, delta_t, freq_bin, time_bin) ==
    LET q_freq1 == quantize_value(freq1, freq_bin)
        q_freq2 == quantize_value(freq2, freq_bin)
        q_delta_t == quantize_value(delta_t, time_bin)
        kept == SelectSeq(Variations(q_freq1, q_freq2, q_delta_t, freq_bin, time_bin), InRange)
    IN  <<hash_function(q_freq1, q_freq2, q_delta_t)>>
        \o [n \in 1..Len(kept) |-> hash_function(kept[n][1], kept[n][2], kept[n][3])]

----------------------------------------------------------------------------
\* Audio files.  A file is what the fingerprinter makes of it: whether
\* librosa can decode it, and the peak mask of its spectrogram as a set of
\* <<freq, time>> cells.

\* create_audio_fingerprint(audio_path) for a decodable file (it raises otherwise)
create_audio_fingerprint(audio) == ArgWhere(audio.peak_mask)

----------------------------------------------------------------------------
\* src/db_pipeline/fingerprint_db.py, src/db_pipeline/fingerprint_db_2.py

\* database[hash_value].append((track_id, anchor_time)), creating the list if absent
AppendPosting(database, hash_value, posting) ==
    IF hash_value \in DOMAIN database
    THEN [database EXCEPT ![hash_value] = Append(@, posting)]
    ELSE database @@ (hash_value :> <<posting>>)

\* the key written at build time for one pair
BuildKey(pair) ==
    hash_function(quantize_value(pair[1], FREQ_BIN),
                  quantize_value(pair[2], FREQ_BIN),
                  quantize_value(pair[3], TIME_BIN))

RECURSIVE AddPairs(_, _, _, _)
\* for pair in pairs: ... database[hash_value].append((track_id, anchor_time)):
\* the database after the first n pairs
AddPairs(database, track_id, pairs, n) ==
    IF n = 0 THEN database
    ELSE CHOOSE after \in {AppendPosting(before, BuildKey(pairs[n]), <<track_id, pairs[n][4]>>) :
                              before \in {AddPairs(database, track_id, pairs, n - 1)}} : TRUE

\* the try block of both builders: a file that cannot be fingerprinted
\* raises before any posting is written and leaves the database as it was
ProcessTrack(database, track_id, audio, target_zone_frames) ==
    IF audio.readable
    THEN CHOOSE after \in {AddPairs(database, track_id, pairs, Len(pairs)) :
                              pairs \in {create_fingerprint_pairs(create_audio_fingerprint(audio),
                                                                 target_zone_frames)}} : TRUE
    ELSE database

RECURSIVE BuildDatabaseStopping(_, _, _, _)
\* the loop with the try around it instead of inside it: the first file that
\* cannot be fingerprinted ends the loop
BuildDatabaseStopping(database, files, i, target_zone_frames) ==
    IF i > Len(files) \/ ~files[i].readable THEN database
    ELSE BuildDatabaseStopping(ProcessTrack(database, IntId(i), files[i], target_zone_frames),
                               files, i + 1, target_zone_frames)

RECURSIVE BuildDatabase(_, _, _, _)
\* the loop of create_fingerprint_database over enumerate(mp3_files): track_id = i + 1
BuildDatabase(database, files, i, target_zone_frames) ==
    IF i > Len(files) THEN database
    ELSE BuildDatabase(ProcessTrack(database, IntId(i), files[i], target_zone_frames),
                       files, i + 1, target_zone_frames)

\* tracks_metadata.json as written by create_fingerprint_database: keys are
\* str(track_id), one record per listed file whether or not it could be fingerprinted
BuildMetadata(files) ==
    [k \in {Str(IntId(i)) : i \in 1..Len(files)} |-> [id |-> k[2], filename |-> files[k[2]]]]

\* the set of track ids with at least one posting (append_fingerprints lines 71-74)
ExistingTrackIds(database) ==
    UNION {{database[h][j][1] : j \in 1..Len(database[h])} : h \in DOMAIN database}

RECURSIVE AppendLoop(_, _, _, _)
\* the loop of append_fingerprints over metadata.items(): acc.database is the
\* dict being extended, acc.saved whether save_database ran.  A track already
\* in existing, without original_filename or whose file is not found is
\* skipped by continue, before the save of that iteration.
AppendLoop(acc, metadata, n, existing) ==
    IF n > Len(metadata) THEN acc
    ELSE LET track_id == metadata[n][1]
             track_data == metadata[n][2]
         IN  IF track_id \in existing \/ track_data.file # "found"
             THEN AppendLoop(acc, metadata, n + 1, existing)
             ELSE AppendLoop([database |-> ProcessTrack(acc.database, track_id, track_data.audio,
                                                        TARGET_ZONE_FRAMES),
                              saved |-> TRUE],
                             metadata, n + 1, existing)

----------------------------------------------------------------------------
\* src/song_matcher.py

\* a cache test that still holds DB_CACHE_DURATION after the load
CacheValidInclusive(current_time) ==
    /\ fingerprint_db # None
    /\ tracks_metadata # None
    /\ current_time - db_last_loaded <= DB_CACHE_DURATION

\* line 23: fingerprint_db is not None and tracks_metadata is not None and
\* current_time - db_last_loaded < DB_CACHE_DURATION
CacheValid(current_time) ==
    /\ fingerprint_db # None
    /\ tracks_metadata # None
    /\ current_time - db_last_loaded < DB_CACHE_DURATION

\* load_databases: the globals and what the call does, for a call at current_time.
\* A missing file makes open() raise; the pickle is read and assigned first.
load_databases(current_time) ==
    IF CacheValid(current_time)
    THEN [raised |-> FALSE, fingerprint_db |-> fingerprint_db,
          tracks_metadata |-> tracks_metadata, db_last_loaded |-> db_last_loaded]
    ELSE IF pickle_file = None
    THEN [raised |-> TRUE, fingerprint_db |-> fingerprint_db,
          tracks_metadata |-> tracks_metadata, db_last_loaded |-> db_last_loaded]
    ELSE IF metadata_file = None
    THEN [raised |-> TRUE, fingerprint_db |-> pickle_file,
          tracks_metadata |-> tracks_metadata, db_last_loaded |-> db_last_loaded]
    ELSE [raised |-> FALSE, fingerprint_db |-> pickle_file,
          tracks_metadata |-> metadata_file, db_last_loaded |-> current_time]

\* an alignment without bins: the raw difference of the two anchor times
BinnedTimeDiffRaw(time_diff) == time_diff

\* (time_diff // 3) * 3
BinnedTimeDiff(time_diff) == (time_diff \div ALIGN_BIN) * ALIGN_BIN

\* position of key k in a dict kept as a sequence of <<key, value>> items in
\* insertion order, 0 if absent
ItemIndex(items, k) ==
    IF \E n \in 1..Len(items) : items[n][1] = k
    THEN CHOOSE n \in 1..Len(items) : items[n][1] = k
    ELSE 0

\* a histogram that records a bin once and never counts it again
CountBinOnce(time_diffs, binned_time_diff) ==
    LET n == ItemIndex(time_diffs, binned_time_diff)
    IN  IF n = 0 THEN Append(time_diffs, <<binned_time_diff, 1>>)
        ELSE time_diffs

\* time_diffs[binned_time_diff] = time_diffs.get(binned_time_diff, 0) + 1
CountBin(time_diffs, binned_time_diff) ==
    LET n == ItemIndex(time_diffs, binned_time_diff)
    IN  IF n = 0 THEN Append(time_diffs, <<binned_time_diff, 1>>)
        ELSE [time_diffs EXCEPT ![n] = <<binned_time_diff, @[2] + 1>>]

\* position of track_id in match_counts (insertion order), 0 if absent
TrackIndex(counts, track_id) ==
    IF \E n \in 1..Len(counts) : counts[n].track_id = track_id
    THEN CHOOSE n \in 1..Len(counts) : counts[n].track_id = track_id
    ELSE 0

\* lines 70-79: one posting hit of query pair idx
RecordHit(counts, track_id, binned_time_diff, idx) ==
    LET n == TrackIndex(counts, track_id)
    IN  IF n = 0
        THEN Append(counts, [track_id |-> track_id,
                             time_diffs |-> <<<<binned_time_diff, 1>>>>,
                             hashes |-> {idx}])
        ELSE [counts EXCEPT ![n] = [track_id |-> track_id,
                                    time_diffs |-> CountBin(@.time_diffs, binned_time_diff),
                                    hashes |-> @.hashes \cup {idx}]]

RECURSIVE ScanPostings(_, _, _, _, _)
\* for track_id, db_time in db[hash_value]: match_counts after the first j postings
ScanPostings(counts, postings, j, query_time, idx) ==
    IF j = 0 THEN counts
    ELSE CHOOSE after \in {RecordHit(before, postings[j][1],
                                     BinnedTimeDiff(query_time - postings[j][2]), idx) :
                              before \in {ScanPostings(counts, postings, j - 1, query_time, idx)}} : TRUE

RECURSIVE ScanHashes(_, _, _, _, _, _)
\* for hash_value in nearby_hashes: if hash_value in db: match_counts after
\* the first n nearby hashes
ScanHashes(counts, nearby_hashes, n, db, query_time, idx) ==
    IF n = 0 THEN counts
    ELSE CHOOSE after \in {IF nearby_hashes[n] \in DOMAIN db
                           THEN ScanPostings(before, db[nearby_hashes[n]],
                                             Len(db[nearby_hashes[n]]), query_time, idx)
                           ELSE before :
                              before \in {ScanHashes(counts, nearby_hashes, n - 1, db, query_time, idx)}} : TRUE

RECURSIVE ScanPairs(_, _, _, _)
\* for idx, (freq1, freq2, delta_t, query_time) in enumerate(fingerprint_pairs):
\* match_counts after the first i pairs; idx = i - 1
ScanPairs(counts, pairs, i, db) ==
    IF i = 0 THEN counts
    ELSE CHOOSE after \in {ScanHashes(before, nearby_hashes, Len(nearby_hashes), db, pairs[i][4], i - 1) :
                              before \in {ScanPairs(counts, pairs, i - 1, db)},
                              nearby_hashes \in {get_nearby_hashes(pairs[i][1], pairs[i][2], pairs[i][3],
                                                                   FREQ_BIN, TIME_BIN)}} : TRUE

\* max(time_diffs.values())
MaxCount(time_diffs) ==
    CHOOSE c \in {time_diffs[n][2] : n \in 1..Len(time_diffs)} :
        \A n \in 1..Len(time_diffs) : time_diffs[n][2] <= c

\* max(time_diffs.items(), key=lambda x: x[1])[0]: the first item, in
\* insertion order, whose count is the largest
FirstMaxBin(time_diffs) ==
    time_diffs[CHOOSE n \in 1..Len(time_diffs) :
                   /\ time_diffs[n][2] = MaxCount(time_diffs)
                   /\ \A m \in 1..(n - 1) : time_diffs[m][2] < MaxCount(time_diffs)][1]

RECURSIVE SelectBest(_, _, _)
\* lines 90-99: the loop over match_counts.items() in insertion order
SelectBest(counts, n, best) ==
    IF n > Len(counts) THEN best
    ELSE LET track_max_count == IF counts[n].time_diffs # << >>
                                THEN MaxCount(counts[n].time_diffs) ELSE 0
         IN  SelectBest(counts, n + 1,
                        IF track_max_count > best.best_count
                        THEN [best_track_id |-> Some(counts[n].track_id),
                              best_count |-> track_max_count,
                              best_time_diff |-> Some(FirstMaxBin(counts[n].time_diffs))]
                        ELSE best)

\* one element per posting hit of the track instead of one per query pair
MatchedPostings(counts, best_id) ==
    IF best_id = None THEN {}
    ELSE LET time_diffs == counts[TrackIndex(counts, best_id[1])].time_diffs
         IN  UNION {{<<n, c>> : c \in 1..time_diffs[n][2]} : n \in 1..Len(time_diffs)}

\* matched_hashes.get(best_track_id, set())
MatchedHashes(counts, best_id) ==
    IF best_id = None THEN {}
    ELSE counts[TrackIndex(counts, best_id[1])].hashes

\* unique_hash_matches / len(fingerprint_pairs) if fingerprint_pairs else 0, as a fraction
Confidence(unique_hash_matches, pairs) ==
    IF pairs # << >> THEN [num |-> unique_hash_matches, den |-> Len(pairs)]
    ELSE [num |-> 0, den |-> 1]

\* metadata.get(str(best_track_id)) when best_track_id is not None, else None
TrackMetadata(metadata, best_id) ==
    IF best_id = None THEN None
    ELSE IF Str(best_id[1]) \in DOMAIN metadata
         THEN Some(metadata[Str(best_id[1])])
         ELSE None

\* a lookup that leaves an empty posting list behind for a missing key
DbAfterLookupInserting(db, hash_value) ==
    IF hash_value \in DOMAIN db THEN db ELSE db @@ (hash_value :> << >>)

\* `if hash_value in db:` and `db[hash_value]` on the unpickled dict: the
\* dict after the lookup
DbAfterLookup(db, hash_value) == db

RECURSIVE DbAfterHashes(_, _, _)
\* the dict after the lookups of the first n nearby hashes of one pair
DbAfterHashes(db, nearby_hashes, n) ==
    IF n = 0 THEN db
    ELSE DbAfterLookup(DbAfterHashes(db, nearby_hashes, n - 1), nearby_hashes[n])

RECURSIVE DbAfterScan(_, _, _)
\* the dict after the lookups of the first i query pairs
DbAfterScan(db, pairs, i) ==
    IF i = 0 THEN db
    ELSE CHOOSE after \in {DbAfterHashes(before, nearby_hashes, Len(nearby_hashes)) :
                              before \in {DbAfterScan(db, pairs, i - 1)},
                              nearby_hashes \in {get_nearby_hashes(pairs[i][1], pairs[i][2], pairs[i][3],
                                                                   FREQ_BIN, TIME_BIN)}} : TRUE

\* the values of match_song's locals when load_databases raised
NoMatch ==
    [match_counts |-> << >>, best_track_id |-> None, best_count |-> 0, track |-> None,
     confidence |-> [num |-> 0, den |-> 1], time_offset |-> None]

\* lines 40-115 of match_song on a loaded (db, metadata); db and metadata are
\* the two objects, which are the module's globals, as the call leaves them
Match(pairs, db, metadata) ==
    LET counts == ScanPairs(<< >>, pairs, Len(pairs), db)
        best == SelectBest(counts, 1, [best_track_id |-> None, best_count |-> 0,
                                       best_time_diff |-> None])
    IN  [match_counts |-> counts,
         best_track_id |-> best.best_track_id,
         best_count |-> best.best_count,
         track |-> TrackMetadata(metadata, best.best_track_id),
         confidence |-> Confidence(Cardinality(MatchedHashes(counts, best.best_track_id)), pairs),
         time_offset |-> best.best_time_diff,
         db |-> DbAfterScan(db, pairs, Len(pairs)),
         metadata |-> metadata]

----------------------------------------------------------------------------
\* State machine

MaxAppendRuns == 1

\* a decodable audio file with the given peak mask
Audio(mask) == [peak_mask |-> mask, readable |-> TRUE]

\* a file librosa cannot decode
Corrupt == [peak_mask |-> {}, readable |-> FALSE]

\* the query pipeline of test() / lambda_handler: peaks, then pairs
QueryPairs(audio) == create_fingerprint_pairs(create_audio_fingerprint(audio), TARGET_ZONE_FRAMES)

\* what match_song returns when nothing was returned yet
NoResult == [track |-> None, confidence |-> [num |-> 0, den |-> 1], time_offset |-> None]

\* the wall clock of the process at start, past the first cache window
StartTime == DB_CACHE_DURATION

MaxThreads == 2

\* the threads of the matcher process that may call load_databases
Threads == 1..MaxThreads

\* a thread that is not inside load_databases and has no return value of it
NotCalling == [pc |-> "idle", db_dir |-> ".", current_time |-> 0, got |-> None]

Init ==
    /\ mp3_files = << >>
    /\ pickle_file = None
    /\ metadata_file = None
    /\ metadata_spotify = << >>
    /\ append_runs = 0
    /\ fingerprint_db = None
    /\ tracks_metadata = None
    /\ db_last_loaded = 0
    /\ clock = StartTime
    /\ fingerprint_pairs = << >>
    /\ match_counts = << >>
    /\ best_track_id = None
    /\ result = NoResult
    /\ outcome = "idle"
    /\ built_by = None
    /\ call = None
    /\ returned = None
    /\ callers = [t \in Threads |-> NotCalling]

\* The builders are scripts of their own (the __main__ blocks of
\* fingerprint_db.py and fingerprint_db_2.py); here they run before the
\* matcher process, whose globals start as None, has loaded anything.
Offline == fingerprint_db = None /\ tracks_metadata = None /\ outcome = "idle"

\* fingerprint_db.create_fingerprint_database(mp3_folder, "./database", ...,
\* target_zone_frames, ...)
\* for a folder whose listing is files; an empty folder writes nothing
CreateFingerprintDatabase(files, target_zone_frames) ==
    /\ Offline
    /\ mp3_files' = files
    /\ IF files = << >>
       THEN UNCHANGED <<pickle_file, metadata_file, built_by>>
       ELSE /\ pickle_file' = Some(BuildDatabase(EmptyDict, files, 1, target_zone_frames))
            /\ metadata_file' = Some(BuildMetadata(files))
            /\ built_by' = Some([script |-> "fingerprint_db",
                                 target_zone_frames |-> target_zone_frames])
    /\ UNCHANGED <<metadata_spotify, append_runs, fingerprint_db, tracks_metadata,
                   db_last_loaded, clock, fingerprint_pairs, match_counts, best_track_id,
                   result, outcome, call, returned, callers>>

\* fingerprint_db_2.append_fingerprints(metadata_path, downloads_folder,
\* "database/fingerprint_db.pkl", params) where the JSON object at
\* metadata_path has the items metadata, in order
AppendFingerprints(metadata) ==
    \E database \in {IF pickle_file = None THEN EmptyDict ELSE pickle_file[1]} :
    \E final \in {AppendLoop([database |-> database, saved |-> FALSE], metadata, 1,
                             ExistingTrackIds(database))} :
        /\ Offline
        /\ append_runs < MaxAppendRuns
        /\ append_runs' = append_runs + 1
        /\ metadata_spotify' = metadata
        /\ pickle_file' = IF final.saved THEN Some(final.database) ELSE pickle_file
        /\ built_by' = IF final.saved
                       THEN Some([script |-> "fingerprint_db_2",
                                  target_zone_frames |-> TARGET_ZONE_FRAMES])
                       ELSE built_by
        /\ UNCHANGED <<mp3_files, metadata_file, fingerprint_db, tracks_metadata,
                       db_last_loaded, clock, fingerprint_pairs, match_counts,
                       best_track_id, result, outcome, call, returned, callers>>

\* song_matcher.match_song(pairs): load_databases, the scan, the selection
MatchSong(pairs) ==
    \E loaded \in {load_databases(clock)} :
    \E m \in {IF loaded.raised THEN NoMatch
               ELSE Match(pairs, loaded.fingerprint_db[1], loaded.tracks_metadata[1])} :
        /\ fingerprint_db' = IF loaded.raised THEN loaded.fingerprint_db ELSE Some(m.db)
        /\ tracks_metadata' = IF loaded.raised THEN loaded.tracks_metadata ELSE Some(m.metadata)
        /\ db_last_loaded' = loaded.db_last_loaded
        /\ fingerprint_pairs' = pairs
        /\ IF loaded.raised
           THEN /\ outcome' = "raised"
                /\ match_counts' = << >>
                /\ best_track_id' = None
                /\ result' = NoResult
           ELSE /\ outcome' = "returned"
                /\ match_counts' = m.match_counts
                /\ best_track_id' = m.best_track_id
                /\ result' = [track |-> m.track, confidence |-> m.confidence,
                              time_offset |-> m.time_offset]
        /\ UNCHANGED <<mp3_files, pickle_file, metadata_file, metadata_spotify,
                       append_runs, clock, built_by, call, returned, callers>>

----------------------------------------------------------------------------
\* src/song-matcher.py: the same load_databases and match_song, with the
\* plots drawn before match_song returns.  The globals are those of the one
\* matcher module the process has imported.

\* all_time_diffs of visualize_match_distribution
AllTimeDiffs(counts) ==
    UNION {{counts[n].time_diffs[k][1] : k \in 1..Len(counts[n].time_diffs)} : n \in 1..Len(counts)}

\* visualize_match_distribution raises ValueError at min(all_time_diffs) when
\* no posting was hit; the plotting itself is outside the model
visualize_match_distribution(counts) == [raised |-> AllTimeDiffs(counts) = {}]

\* match_song of song-matcher.py
MatchSongWithPlots(pairs) ==
    \E loaded \in {load_databases(clock)} :
    \E m \in {IF loaded.raised THEN NoMatch
               ELSE Match(pairs, loaded.fingerprint_db[1], loaded.tracks_metadata[1])} :
        /\ fingerprint_db' = IF loaded.raised THEN loaded.fingerprint_db ELSE Some(m.db)
        /\ tracks_metadata' = IF loaded.raised THEN loaded.tracks_metadata ELSE Some(m.metadata)
        /\ db_last_loaded' = loaded.db_last_loaded
        /\ fingerprint_pairs' = pairs
        /\ IF loaded.raised
           THEN /\ outcome' = "raised"
                /\ match_counts' = << >>
                /\ best_track_id' = None
                /\ result' = NoResult
           ELSE /\ match_counts' = m.match_counts
                /\ best_track_id' = m.best_track_id
                /\ IF visualize_match_distribution(m.match_counts).raised
                   THEN /\ outcome' = "raised"
                        /\ result' = NoResult
                   ELSE /\ outcome' = "returned"
                        /\ result' = [track |-> m.track, confidence |-> m.confidence,
                                      time_offset |-> m.time_offset]
        /\ UNCHANGED <<mp3_files, pickle_file, metadata_file, metadata_spotify,
                       append_runs, clock, built_by, call, returned, callers>>

----------------------------------------------------------------------------
\* Inputs

\* create_audio_fingerprint keeps one bin per band and frame (the argmax of
\* the band), so a peak mask never has two cells of one band in one frame;
\* cells that share a 30 x 30 neighbourhood are both peaks when their
\* magnitudes are equal
ValidMask(mask) ==
    \A c \in mask : \A d \in mask :
        (c # d /\ c[2] = d[2]) => BandOf(c[1]) # BandOf(d[1])

RECURSIVE Masks(_, _)
\* the peak masks over a set of cells with at most n peaks
Masks(cells, n) ==
    IF n = 0 THEN {{}}
    ELSE LET smaller == Masks(cells, n - 1)
         IN  smaller \cup {mc[1] \cup {mc[2]} : mc \in
                               {x \in smaller \X cells : ValidMask(x[1] \cup {x[2]})}}

RECURSIVE Listings(_, _)
\* the listings of at most n distinct files of a library, in every order
Listings(library, n) ==
    IF n = 0 THEN {<< >>}
    ELSE LET shorter == Listings(library, n - 1)
         IN  shorter \cup {Append(l, f) : <<l, f>> \in
                              {lf \in shorter \X library :
                                   /\ Len(lf[1]) = n - 1
                                   /\ \A k \in 1..Len(lf[1]) : lf[1][k] # lf[2]}}

MaxTracks == 2

MaxPeaks == 3

\* <<freq, time>> cells: bin 4 (band [2, 8)) in frames 0 and 1, bin 8 (band [8, 22)) in frame 1
Cells == {<<4, 0>>, <<4, 1>>, <<8, 1>>}

\* scenario S3: A has peaks (10,100),(20,200), B has peaks (10,100),(20,201)
TrackA == Audio({<<100, 10>>, <<200, 20>>})

TrackB == Audio({<<100, 10>>, <<201, 20>>})

Library == {Audio(m) : m \in Masks(Cells, MaxPeaks)} \cup {TrackA, TrackB, Corrupt}

Queries == {QueryPairs(a) : a \in {f \in Library : f.readable}}

\* the folders create_fingerprint_database is run on
Folders == Listings(Library, MaxTracks)

Next ==
    \/ \E files \in Folders : CreateFingerprintDatabase(files, TARGET_ZONE_FRAMES)
    \/ \E pairs \in Queries : MatchSong(pairs)

Spec == Init /\ [][Next]_vars

\* a process that runs song-matcher.py instead of song_matcher.py
NextPlots ==
    \/ \E files \in Folders : CreateFingerprintDatabase(files, TARGET_ZONE_FRAMES)
    \/ \E pairs \in Queries : MatchSongWithPlots(pairs)

SpecPlots == Init /\ [][NextPlots]_vars

\* metadata_spotify.json: pipeline.py numbers the tracks from 0 and json.dump
\* writes the ids as strings; each entry names a file that is found in the
\* downloads folder, is not found there, or names none
SpotifyEntries ==
    {[file |-> "found", audio |-> a] : a \in Library}
    \cup {[file |-> "not_found", audio |-> Corrupt], [file |-> "no_filename", audio |-> Corrupt]}

MaxAppend == 1

RECURSIVE SpotifyMetadata(_)
\* the metadata objects with at most n entries, ids "0", "1", ...
SpotifyMetadata(n) ==
    IF n = 0 THEN {<< >>}
    ELSE LET shorter == SpotifyMetadata(n - 1)
         IN  shorter \cup {Append(m, <<StrId(Len(m)), e>>) : <<m, e>> \in
                              {me \in shorter \X SpotifyEntries : Len(me[1]) = n - 1}}

Appendable == SpotifyMetadata(MaxAppend)

\* the folders of at most one file
SingleFolders == Listings(Library, 1)

NextAppend ==
    \/ \E files \in SingleFolders : CreateFingerprintDatabase(files, TARGET_ZONE_FRAMES)
    \/ \E metadata \in Appendable : AppendFingerprints(metadata)
    \/ \E pairs \in Queries : MatchSong(pairs)

SpecAppend == Init /\ [][NextAppend]_vars

----------------------------------------------------------------------------
\* One indexed track, queried with excerpts of itself

MaxSelfPeaks == 5

MaxClipStart == 5

\* bins 178 and 180 (band [64, 181)) and 181 (band [181, 512)) in frames 0, 3, 5 and 7
SelfCells == {178, 180, 181} \X {0, 3, 5, 7}

\* scenario S1: one track with peaks (10,100),(20,200),(30,300)
TrackS1 == Audio({<<100, 10>>, <<200, 20>>, <<300, 30>>})

SelfLibrary == {Audio(m) : m \in Masks(SelfCells, MaxSelfPeaks)} \cup {TrackS1}

SelfFolders == {<<f>> : f \in SelfLibrary}

\* the lengths, in frames, of the excerpts cut from a track
ClipLengths == {4, 40}

\* the shifts, in frames, applied to a whole track
QueryShifts == {0, 500}

\* the excerpt of n frames that starts at frame s of the audio: its frame 0 is frame s
Clip(audio, s, n) ==
    Audio({<<c[1], c[2] - s>> : c \in {d \in audio.peak_mask : s <= d[2] /\ d[2] < s + n}})

\* the audio with every peak d frames later
Shifted(audio, d) == Audio({<<c[1], c[2] + d>> : c \in audio.peak_mask})

\* the catalogue is built once and each run of the matcher answers one query
NextSelf ==
    \/ /\ pickle_file = None
       /\ \E files \in SelfFolders : CreateFingerprintDatabase(files, TARGET_ZONE_FRAMES)
    \/ \E s \in 0..MaxClipStart : \E n \in ClipLengths :
          /\ mp3_files # << >>
          /\ outcome = "idle"
          /\ MatchSong(QueryPairs(Clip(mp3_files[1], s, n)))
    \/ \E d \in QueryShifts :
          /\ mp3_files # << >>
          /\ outcome = "idle"
          /\ MatchSong(QueryPairs(Shifted(mp3_files[1], d)))

SpecSelf == Init /\ [][NextSelf]_vars

----------------------------------------------------------------------------
\* Properties

\* the last match_song call returned
Returned == outcome = "returned"

\* the largest single-bin count of the n-th track of match_counts
TrackMax(n) == MaxCount(match_counts[n].time_diffs)

\* the tracks of match_counts whose largest single-bin count is the largest of all
TopTracks == {n \in 1..Len(match_counts) : \A m \in 1..Len(match_counts) : TrackMax(m) <= TrackMax(n)}

\* the histogram of track_id in match_counts, empty if the track was never hit
Histogram(track_id) ==
    IF TrackIndex(match_counts, track_id) = 0 THEN << >>
    ELSE match_counts[TrackIndex(match_counts, track_id)].time_diffs

\* the count of a bin in a histogram, 0 if absent
BinCount(time_diffs, bin) ==
    IF ItemIndex(time_diffs, bin) = 0 THEN 0 ELSE time_diffs[ItemIndex(time_diffs, bin)][2]

\* C4: the confidence match_song returns lies in [0, 1], and it is 0 whenever
\* the returned track metadata is None.
C4_ConfidenceZeroWhenNoTrack ==
    Returned =>
        /\ 0 <= result.confidence.num
        /\ result.confidence.num <= result.confidence.den
        /\ result.track = None => result.confidence.num = 0

\* C5: match_song returns the track with the largest single-bin count, and
\* among several tracks sharing that count the one with the smallest track_id.
C5_WinnerIsSmallestTopTrack ==
    (Returned /\ match_counts # << >>) =>
        /\ best_track_id # None
        /\ \E n \in TopTracks :
              /\ match_counts[n].track_id = best_track_id[1]
              /\ \A m \in TopTracks : match_counts[n].track_id[2] <= match_counts[m].track_id[2]

\* C6: the returned time_offset is the bin with the largest count in the
\* winning track's histogram, the smallest such bin when several share it.
C6_OffsetIsSmallestTopBin ==
    (Returned /\ best_track_id # None) =>
        LET time_diffs == Histogram(best_track_id[1])
        IN  /\ result.time_offset # None
            /\ BinCount(time_diffs, result.time_offset[1]) = MaxCount(time_diffs)
            /\ \A n \in 1..Len(time_diffs) :
                  time_diffs[n][2] = MaxCount(time_diffs) => result.time_offset[1] <= time_diffs[n][1]

\* the listings holding the same files as files, in every order
Reorderings(files) ==
    {l \in Folders : Len(l) = Len(files) /\ {l[k] : k \in 1..Len(l)} = {files[k] : k \in 1..Len(files)}}

\* the file a returned metadata record names, None for no track
TrackFile(track) == IF track = None THEN None ELSE Some(track[1].filename)

\* C7: whatever the order in which the same files are ingested, match_song
\* returns the same track, offset and confidence for the query.
C7_IngestionOrderIrrelevant ==
    (Returned /\ mp3_files # << >>) =>
        \A files \in Reorderings(mp3_files) :
            LET m == Match(fingerprint_pairs, BuildDatabase(EmptyDict, files, 1, TARGET_ZONE_FRAMES), BuildMetadata(files))
            IN  /\ TrackFile(m.track) = TrackFile(result.track)
                /\ m.time_offset = result.time_offset
                /\ m.confidence = result.confidence

\* scenario S3 was run: A then B ingested, queried with A's peaks
ScenarioS3 ==
    /\ Returned
    /\ mp3_files = <<TrackA, TrackB>>
    /\ fingerprint_pairs = QueryPairs(TrackA)

\* C9 as stated: in scenario S3 match_song returns A, A's histogram has
\* count 2 at offset 0 and B's best count is strictly lower.
C9_S3AsStated ==
    ScenarioS3 =>
        /\ TrackFile(result.track) = Some(TrackA)
        /\ BinCount(Histogram(IntId(1)), 0) = 2
        /\ MaxCount(Histogram(IntId(2))) < MaxCount(Histogram(IntId(1)))

\* C9 amended: in scenario S3 match_song returns A with confidence 1.0 and
\* offset 0; A's histogram has count 1 at offset 0 (two peaks make one pair)
\* and B's histogram is the same, since 201 quantises to the key of 200.
C9_S3Amended ==
    ScenarioS3 =>
        /\ TrackFile(result.track) = Some(TrackA)
        /\ result.confidence = [num |-> 1, den |-> 1]
        /\ result.time_offset = Some(0)
        /\ Histogram(IntId(1)) = <<<<0, 1>>>>
        /\ Histogram(IntId(2)) = <<<<0, 1>>>>

\* C9 witness: scenario S3 has been run
C9_Witness == ScenarioS3 /\ best_track_id = Some(IntId(1))

\* the last match_song call got its databases and none of its pairs hit a posting
NoPostingHit ==
    /\ outcome # "idle"
    /\ fingerprint_db # None /\ tracks_metadata # None
    /\ \A i \in 1..Len(fingerprint_pairs) :
          LET nearby_hashes == get_nearby_hashes(fingerprint_pairs[i][1], fingerprint_pairs[i][2],
                                                 fingerprint_pairs[i][3], FREQ_BIN, TIME_BIN)
          IN  \A n \in 1..Len(nearby_hashes) :
                  nearby_hashes[n] \in DOMAIN fingerprint_db[1] => fingerprint_db[1][nearby_hashes[n]] = << >>

\* C10: a match_song call with zero pairs, or with pairs none of which hits
\* a posting, does not raise and returns track None, confidence 0 and
\* time_offset None.
C10_NoHitIsNoMatch ==
    NoPostingHit =>
        /\ outcome = "returned"
        /\ result.track = None
        /\ result.confidence.num = 0
        /\ result.time_offset = None

----------------------------------------------------------------------------
\* Properties of one indexed track queried with excerpts of itself (SpecSelf)

\* the number of postings query pair i hits through its nearby hashes
PostingHits(i) ==
    LET nearby_hashes == get_nearby_hashes(fingerprint_pairs[i][1], fingerprint_pairs[i][2],
                                           fingerprint_pairs[i][3], FREQ_BIN, TIME_BIN)
        HitsUpTo[k \in 0..Len(nearby_hashes)] ==
            IF k = 0 THEN 0
            ELSE HitsUpTo[k - 1] + (IF nearby_hashes[k] \in DOMAIN fingerprint_db[1]
                                    THEN Len(fingerprint_db[1][nearby_hashes[k]]) ELSE 0)
    IN  HitsUpTo[Len(nearby_hashes)]

\* every query pair hits one posting and no other
Unambiguous == \A i \in 1..Len(fingerprint_pairs) : PostingHits(i) = 1

\* the confidence is exactly 1.0
FullConfidence == result.confidence.num = result.confidence.den

\* the only indexed track was queried with its own pairs, and it has pairs
SelfQuery ==
    /\ Returned
    /\ Len(mp3_files) = 1
    /\ fingerprint_pairs # << >>
    /\ fingerprint_pairs = QueryPairs(mp3_files[1])

\* C1: a track with at least one pair, matched with its own pairs
\* against an index holding only that track, is returned with confidence 1.0
\* and time_offset 0.
C1_SelfIdentification ==
    SelfQuery =>
        /\ TrackFile(result.track) = Some(mp3_files[1])
        /\ FullConfidence
        /\ result.time_offset = Some(0)

\* scenario S2 was run: S1's track queried with its peaks 500 frames later
ScenarioS2 ==
    /\ Returned
    /\ mp3_files = <<TrackS1>>
    /\ fingerprint_pairs = QueryPairs(Shifted(TrackS1, 500))

\* C2 as stated: in scenario S2 match_song returns the track, confidence
\* 1.0 and time_offset exactly 500.
C2_ShiftedQueryAsStated ==
    ScenarioS2 =>
        /\ TrackFile(result.track) = Some(TrackS1)
        /\ FullConfidence
        /\ result.time_offset = Some(500)

\* C2 amended: in scenario S2 match_song returns the track, confidence 1.0
\* and time_offset 498, the shift rounded down to a multiple of ALIGN_BIN.
C2_ShiftedQueryAmended ==
    ScenarioS2 =>
        /\ TrackFile(result.track) = Some(TrackS1)
        /\ FullConfidence
        /\ result.time_offset = Some(498)
        /\ Histogram(IntId(1)) = <<<<498, 3>>>>

\* C2 witness: scenario S2 has been run and all three pairs matched
C2_Witness == ScenarioS2 /\ Len(fingerprint_pairs) = 3 /\ best_track_id = Some(IntId(1))

\* the query is the excerpt of n frames starting at frame s of the only
\* indexed track, and the excerpt has pairs
SubClipQuery(s, n) ==
    /\ Returned
    /\ Len(mp3_files) = 1
    /\ fingerprint_pairs # << >>
    /\ fingerprint_pairs = QueryPairs(Clip(mp3_files[1], s, n))

----------------------------------------------------------------------------
\* One indexed track, queried with one of its pairs off by one in one field

MaxTolPeaks == 2

\* bins at both ends of the spectrum and on both sides of a band edge, of
\* both parities, in frames that put a pair at both ends of the target zone
TolCells == {0, 1, 180, 181, 510, 511} \X {0, 1, 2, 50, 51}

TolLibrary == {Audio(m) : m \in Masks(TolCells, MaxTolPeaks)}

TolFolders == {<<f>> : f \in TolLibrary}

\* the pair with d added to one of f1, f2, delta_t
Perturbed(pair, field, d) == [pair EXCEPT ![field] = @ + d]

\* the catalogue is built once and each run of the matcher answers one query
NextTol ==
    \/ /\ pickle_file = None
       /\ \E files \in TolFolders : CreateFingerprintDatabase(files, TARGET_ZONE_FRAMES)
    \/ /\ mp3_files # << >>
       /\ outcome = "idle"
       /\ \E pairs \in {QueryPairs(mp3_files[1])} :
              \E n \in 1..Len(pairs) : \E field \in 1..3 : \E d \in {-1, 1} :
                  MatchSong(<<Perturbed(pairs[n], field, d)>>)

SpecTol == Init /\ [][NextTol]_vars

\* the keys of a sequence of hashes
Keys(hashes) == {hashes[n] : n \in 1..Len(hashes)}

\* the query was the indexed pair p with d added to one field
PerturbedQuery(p, field, d) ==
    /\ Returned
    /\ fingerprint_pairs = <<Perturbed(p, field, d)>>

\* C8: for every indexed pair and every query pair that differs from it by
\* +1 or -1 in exactly one of f1, f2, delta_t, get_nearby_hashes of the
\* query pair contains the key written for the indexed pair, and the query
\* pair hits a posting of the track.
C8_QuantisationTolerance ==
    Len(mp3_files) = 1 =>
        \A n \in 1..Len(QueryPairs(mp3_files[1])) : \A field \in 1..3 : \A d \in {-1, 1} :
            LET p == QueryPairs(mp3_files[1])[n]
                q == fingerprint_pairs[1]
            IN  PerturbedQuery(p, field, d) =>
                    /\ BuildKey(p) \in Keys(get_nearby_hashes(q[1], q[2], q[3], FREQ_BIN, TIME_BIN))
                    /\ BuildKey(p) \in DOMAIN fingerprint_db[1]
                    /\ TrackIndex(match_counts, IntId(1)) # 0
                    /\ 0 \in match_counts[TrackIndex(match_counts, IntId(1))].hashes

\* C8 witness: a query pair whose own key differs from the indexed pair's
\* key hit the track's posting through a neighbouring key
C8_Witness ==
    /\ Len(mp3_files) = 1
    /\ \E n \in 1..Len(QueryPairs(mp3_files[1])) : \E field \in 1..3 : \E d \in {-1, 1} :
           /\ PerturbedQuery(QueryPairs(mp3_files[1])[n], field, d)
           /\ BuildKey(fingerprint_pairs[1]) # BuildKey(QueryPairs(mp3_files[1])[n])
    /\ best_track_id = Some(IntId(1))

----------------------------------------------------------------------------
\* Properties of the files the builders write

\* C11: once both files exist, every track_id in a posting of the pickle
\* is, as a string, a key of tracks_metadata.json, whichever builders ran.
C11_ReferentialIntegrity ==
    (pickle_file # None /\ metadata_file # None) =>
        \A track_id \in ExistingTrackIds(pickle_file[1]) :
            Str(track_id) \in DOMAIN metadata_file[1]

----------------------------------------------------------------------------
\* Direct calls of create_fingerprint_pairs on peak lists

MaxListPeaks == 3

\* (time, freq) peaks: frames at both ends of the target zone and past it,
\* two bins of different bands
ListPeaks == {0, 1, 50, 51, 101} \X {4, 8}

RECURSIVE PeakLists(_)
\* the peak lists of at most n peaks, in any order, repeats allowed
PeakLists(n) ==
    IF n = 0 THEN {<< >>}
    ELSE LET shorter == PeakLists(n - 1)
         IN  shorter \cup {Append(lp[1], lp[2]) : lp \in
                              {x \in shorter \X ListPeaks : Len(x[1]) = n - 1}}

Fingerprints == PeakLists(MaxListPeaks)

\* the target zones a caller passes: the default and a narrower one
TargetZones == {TARGET_ZONE_FRAMES, 10}

\* create_fingerprint_pairs(fingerprint, target_zone_frames) called
\* directly, once in a run
CallCreateFingerprintPairs(fingerprint, target_zone_frames) ==
    /\ call = None
    /\ call' = Some([function |-> "create_fingerprint_pairs",
                     args |-> <<fingerprint, target_zone_frames>>])
    /\ returned' = Some(create_fingerprint_pairs(fingerprint, target_zone_frames))
    /\ UNCHANGED <<mp3_files, pickle_file, metadata_file, metadata_spotify, append_runs,
                   fingerprint_db, tracks_metadata, db_last_loaded, clock,
                   fingerprint_pairs, match_counts, best_track_id, result, outcome, built_by,
                   callers>>

NextPairs ==
    \E fingerprint \in Fingerprints : \E target_zone_frames \in TargetZones :
        CallCreateFingerprintPairs(fingerprint, target_zone_frames)

SpecPairs == Init /\ [][NextPairs]_vars

\* the last direct call was of create_fingerprint_pairs
PairsCalled == call # None /\ call[1].function = "create_fingerprint_pairs"

\* C12: every pair create_fingerprint_pairs emits, for any peak list in any
\* order, has 0 <= delta_t <= target_zone_frames.
C12_DeltaWithinTargetZone ==
    PairsCalled =>
        \A n \in 1..Len(returned[1]) :
            /\ 0 <= returned[1][n][3]
            /\ returned[1][n][3] <= call[1].args[2]

\* C12 witness: a peak list given with a later peak first, under the default
\* target zone, produced a pair of simultaneous peaks and a pair a full
\* target zone apart
C12_Witness ==
    /\ PairsCalled
    /\ call[1].args[2] = TARGET_ZONE_FRAMES
    /\ \E k \in 1..(Len(call[1].args[1]) - 1) : call[1].args[1][k][1] > call[1].args[1][k + 1][1]
    /\ \E n \in 1..Len(returned[1]) : returned[1][n][3] = 0
    /\ \E n \in 1..Len(returned[1]) : returned[1][n][3] = TARGET_ZONE_FRAMES

\* the last direct call was of create_fingerprint_pairs with the default target zone
DefaultPairsCalled == PairsCalled /\ call[1].args[2] = TARGET_ZONE_FRAMES

\* C13 as stated: every pair record has both frequencies in [0, 2^10),
\* delta_t in [1, TARGET_ZONE_FRAMES] and t_anchor >= 0.
C13_PairRangesAsStated ==
    DefaultPairsCalled =>
        \A n \in 1..Len(returned[1]) :
            /\ 0 <= returned[1][n][1] /\ returned[1][n][1] < FIELD_LIMIT
            /\ 0 <= returned[1][n][2] /\ returned[1][n][2] < FIELD_LIMIT
            /\ 1 <= returned[1][n][3] /\ returned[1][n][3] <= TARGET_ZONE_FRAMES
            /\ 0 <= returned[1][n][4]

\* C13 amended: every pair record is made of two peaks of the list, the
\* anchor (t_anchor, f_anchor) and a target (t_anchor + delta_t, f_target);
\* both frequencies are in [0, 2^10), t_anchor >= 0 and delta_t is in
\* [0, TARGET_ZONE_FRAMES], 0 when the two peaks are in the same frame.
C13_PairRangesAmended ==
    DefaultPairsCalled =>
        \A n \in 1..Len(returned[1]) :
            LET pair == returned[1][n]
                fingerprint == call[1].args[1]
            IN  /\ \E k \in 1..Len(fingerprint) : fingerprint[k] = <<pair[4], pair[1]>>
                /\ \E k \in 1..Len(fingerprint) : fingerprint[k] = <<pair[4] + pair[3], pair[2]>>
                /\ 0 <= pair[1] /\ pair[1] < FIELD_LIMIT
                /\ 0 <= pair[2] /\ pair[2] < FIELD_LIMIT
                /\ 0 <= pair[3] /\ pair[3] <= TARGET_ZONE_FRAMES
                /\ 0 <= pair[4]

\* C13 witness: two peaks of one frame, in different bands, were paired with delta_t 0
C13_Witness ==
    /\ DefaultPairsCalled
    /\ \E n \in 1..Len(returned[1]) :
           /\ returned[1][n][3] = 0
           /\ returned[1][n][1] # returned[1][n][2]

----------------------------------------------------------------------------
\* Direct calls of get_nearby_hashes

\* bins at both ends of the spectrogram (513 bins) and of the 10-bit field, of both parities
KeyFreqs == {0, 1, 2, 3, 6, 8, 511, 512, 1022, 1023}

\* frame differences at both ends of the target zone and of the 10-bit field
KeyDeltas == {0, 1, 4, 49, 50, 1023}

\* get_nearby_hashes(freq1, freq2, delta_t) called directly, once in a run,
\* with the default freq_bin and time_bin
CallGetNearbyHashes(freq1, freq2, delta_t) ==
    /\ call = None
    /\ call' = Some([function |-> "get_nearby_hashes", args |-> <<freq1, freq2, delta_t>>])
    /\ returned' = Some(get_nearby_hashes(freq1, freq2, delta_t, FREQ_BIN, TIME_BIN))
    /\ UNCHANGED <<mp3_files, pickle_file, metadata_file, metadata_spotify, append_runs,
                   fingerprint_db, tracks_metadata, db_last_loaded, clock,
                   fingerprint_pairs, match_counts, best_track_id, result, outcome, built_by,
                   callers>>

NextKeys ==
    \E freq1 \in KeyFreqs : \E freq2 \in KeyFreqs : \E delta_t \in KeyDeltas :
        CallGetNearbyHashes(freq1, freq2, delta_t)

SpecKeys == Init /\ [][NextKeys]_vars

\* the last direct call was of get_nearby_hashes
HashesCalled == call # None /\ call[1].function = "get_nearby_hashes"

\* the three 10-bit sub-fields of a key: bits 20-29, 10-19 and 0-9
SubFields(key) == <<(key \div 2^20) % 1024, (key \div 2^10) % 1024, key % 1024>>

\* a key is a non-negative integer below 2^30 whose sub-fields are multiples of the bin
WellFormedKey(key) ==
    /\ 0 <= key /\ key < 2^30
    /\ SubFields(key)[1] % FREQ_BIN = 0
    /\ SubFields(key)[2] % FREQ_BIN = 0
    /\ SubFields(key)[3] % TIME_BIN = 0

\* the pair is one the fingerprinter can emit: bins of a 513-bin spectrogram, delta_t in the target zone
EmittablePair(args) ==
    /\ args[1] \in 0..512
    /\ args[2] \in 0..512
    /\ args[3] \in 0..TARGET_ZONE_FRAMES

\* C14: for f1, f2 in [0, 513) and delta_t in [0, 50], the build-time key
\* and every key of get_nearby_hashes is a non-negative integer below 2^30
\* whose three 10-bit sub-fields are multiples of 2.
C14_KeysWellFormed ==
    (HashesCalled /\ EmittablePair(call[1].args)) =>
        /\ WellFormedKey(BuildKey(call[1].args))
        /\ \A key \in Keys(returned[1]) : WellFormedKey(key)

\* C14 witness: the keys of a pair at the top of the spectrogram and of the
\* target zone, odd in no field, whose neighbourhood lost a variant below 0
C14_Witness ==
    /\ HashesCalled
    /\ call[1].args = <<512, 1, 50>>
    /\ Len(returned[1]) = 6

\* every field of the pair fits the 10-bit field of the key
InFieldRange(args) == \A k \in 1..3 : 0 <= args[k] /\ args[k] < FIELD_LIMIT

\* the quantised fields of the pair
Quantised(args) ==
    <<(args[1] \div FREQ_BIN) * FREQ_BIN, (args[2] \div FREQ_BIN) * FREQ_BIN,
      (args[3] \div TIME_BIN) * TIME_BIN>>

\* the packed key of three fields that fit, as arithmetic on the fields
Packed(fields) == fields[1] * 2^20 + fields[2] * 2^10 + fields[3]

\* the fields one step of the bin away from q in exactly one field, inside [0, 1024)
OneStepAway(q) ==
    {v \in {[q EXCEPT ![k] = @ + d] : k \in 1..3, d \in {-FREQ_BIN, FREQ_BIN}} :
        \A k \in 1..3 : 0 <= v[k] /\ v[k] < FIELD_LIMIT}

\* C15: for (f1, f2, delta_t) in [0, 1024), get_nearby_hashes returns the
\* primary key first, then at most six keys, each the key of the quantised
\* fields with exactly one field changed by +2 or -2; a variant whose
\* changed field leaves [0, 1024) is dropped and the others are kept; the
\* keys are pairwise distinct integers in [0, 2^30); the neighbourhood of
\* (6, 8, 4) holds the f1 = 4 variant.
C15_NeighbourhoodShape ==
    (HashesCalled /\ InFieldRange(call[1].args)) =>
        LET q == Quantised(call[1].args)
            hashes == returned[1]
        IN  /\ hashes[1] = Packed(q)
            /\ Len(hashes) <= 7
            /\ {hashes[n] : n \in 2..Len(hashes)} = {Packed(v) : v \in OneStepAway(q)}
            /\ Len(hashes) = 1 + Cardinality(OneStepAway(q))
            /\ \A n \in 1..Len(hashes) : \A m \in 1..Len(hashes) :
                   n # m => hashes[n] # hashes[m]
            /\ \A n \in 1..Len(hashes) : 0 <= hashes[n] /\ hashes[n] < 2^30
            /\ call[1].args = <<6, 8, 4>> =>
                   /\ Packed(<<4, 8, 4>>) \in Keys(hashes)
                   /\ Len(hashes) = 7

\* C15 witness: the neighbourhood of (6, 8, 4) was computed and has the
\* primary key and six variants
C15_Witness ==
    /\ HashesCalled
    /\ call[1].args = <<6, 8, 4>>
    /\ Len(returned[1]) = 7

----------------------------------------------------------------------------
\* src/fingerprint-database-creator.py: the builder that writes the same
\* fingerprint_db.pkl and tracks_metadata.json from its own copies of the
\* fingerprinting functions.  For a run of this script, peak_mask of a file
\* is the mask its own create_audio_fingerprint finds.

\* create_fingerprint_pairs of the script: the same sort and the same two
\* loops, with pair = (anchor_freq, target_freq, time_diff) and sorted_peaks
\* returned beside the pairs
legacy_create_fingerprint_pairs(fingerprint, target_zone_frames) ==
    LET with_anchor == create_fingerprint_pairs(fingerprint, target_zone_frames)
    IN  [pairs |-> [n \in 1..Len(with_anchor) |->
                        <<with_anchor[n][1], with_anchor[n][2], with_anchor[n][3]>>],
         sorted_peaks |-> SortedPeaks(fingerprint)]

\* hash_function of the script, called on the pair as it is
legacy_hash_function(freq1, freq2, delta_t) ==
    BitOr(BitOr(ShiftLeft(freq1, 20), ShiftLeft(freq2, 10)), delta_t)

\* for peak in sorted_peaks: if peak[1] == freq1: anchor_time = peak[0]; break
LegacyAnchorTime(sorted_peaks, freq1) ==
    IF \E k \in 1..Len(sorted_peaks) : sorted_peaks[k][2] = freq1
    THEN Some(sorted_peaks[CHOOSE k \in 1..Len(sorted_peaks) :
                               /\ sorted_peaks[k][2] = freq1
                               /\ \A m \in 1..(k - 1) : sorted_peaks[m][2] # freq1][1])
    ELSE None

RECURSIVE LegacyAddPairs(_, _, _, _, _)
\* for pair in pairs: the database after the first n pairs
LegacyAddPairs(database, track_id, pairs, sorted_peaks, n) ==
    IF n = 0 THEN database
    ELSE CHOOSE after \in
             {IF anchor_time # None
              THEN AppendPosting(before,
                                 legacy_hash_function(pairs[n][1], pairs[n][2], pairs[n][3]),
                                 <<track_id, anchor_time[1]>>)
              ELSE before :
                  before \in {LegacyAddPairs(database, track_id, pairs, sorted_peaks, n - 1)},
                  anchor_time \in {LegacyAnchorTime(sorted_peaks, pairs[n][1])}} : TRUE

\* the try block of the script for one file
LegacyProcessTrack(database, track_id, audio, target_zone_frames) ==
    IF audio.readable
    THEN CHOOSE after \in {LegacyAddPairs(database, track_id, made.pairs, made.sorted_peaks,
                                          Len(made.pairs)) :
                              made \in {legacy_create_fingerprint_pairs(
                                            create_audio_fingerprint(audio),
                                            target_zone_frames)}} : TRUE
    ELSE database

RECURSIVE LegacyBuildDatabase(_, _, _, _)
\* for i, mp3_file in enumerate(mp3_files): track_id = i + 1
LegacyBuildDatabase(database, files, i, target_zone_frames) ==
    IF i > Len(files) THEN database
    ELSE LegacyBuildDatabase(LegacyProcessTrack(database, IntId(i), files[i],
                                                target_zone_frames),
                             files, i + 1, target_zone_frames)

\* create_fingerprint_database of the script, for a folder whose listing is
\* files; an empty folder returns before anything is written.  The metadata
\* record of a file is stored before its try block, under str(track_id).
CreateFingerprintDatabaseLegacy(files, target_zone_frames) ==
    /\ Offline
    /\ mp3_files' = files
    /\ IF files = << >>
       THEN UNCHANGED <<pickle_file, metadata_file, built_by>>
       ELSE /\ pickle_file' = Some(LegacyBuildDatabase(EmptyDict, files, 1, target_zone_frames))
            /\ metadata_file' = Some(BuildMetadata(files))
            /\ built_by' = Some([script |-> "fingerprint-database-creator",
                                 target_zone_frames |-> target_zone_frames])
    /\ UNCHANGED <<metadata_spotify, append_runs, fingerprint_db, tracks_metadata,
                   db_last_loaded, clock, fingerprint_pairs, match_counts, best_track_id,
                   result, outcome, call, returned, callers>>

\* either builder, then the matcher
NextLegacy ==
    \/ \E files \in Folders : CreateFingerprintDatabase(files, TARGET_ZONE_FRAMES)
    \/ \E files \in Folders : CreateFingerprintDatabaseLegacy(files, TARGET_ZONE_FRAMES)
    \/ \E pairs \in Queries : MatchSong(pairs)

SpecLegacy == Init /\ [][NextLegacy]_vars

\* a builder has written the pickle from the folder mp3_files
Built == pickle_file # None /\ built_by # None /\ mp3_files # << >>

\* the pair records of file i of the folder, under the target zone of the build
FilePairs(i) ==
    IF mp3_files[i].readable
    THEN create_fingerprint_pairs(create_audio_fingerprint(mp3_files[i]),
                                  built_by[1].target_zone_frames)
    ELSE << >>

\* the key get_nearby_hashes returns first for a pair at query time
PrimaryKey(pair) == get_nearby_hashes(pair[1], pair[2], pair[3], FREQ_BIN, TIME_BIN)[1]

\* the postings of track i in the pickle, as <<key, position>>
PostingsOf(i) ==
    {hj \in UNION {{<<h, j>> : j \in 1..Len(pickle_file[1][h])} : h \in DOMAIN pickle_file[1]} :
        pickle_file[1][hj[1]][hj[2]][1] = IntId(i)}

\* C16: after a build, every pair of every file has a posting of its track
\* under the key get_nearby_hashes returns first for it, every key of the
\* index is such a primary key, and each pair made exactly one posting.
C16_BuildQueryKeyAgreement ==
    Built =>
        \A i \in 1..Len(mp3_files) :
            LET pairs == FilePairs(i)
            IN  /\ \A n \in 1..Len(pairs) :
                       /\ PrimaryKey(pairs[n]) \in DOMAIN pickle_file[1]
                       /\ \E hj \in PostingsOf(i) : hj[1] = PrimaryKey(pairs[n])
                /\ \A hj \in PostingsOf(i) :
                       \E n \in 1..Len(pairs) : hj[1] = PrimaryKey(pairs[n])
                /\ Cardinality(PostingsOf(i)) = Len(pairs)

\* the key the builder of the pickle computes for a pair
BuilderKey(pair) ==
    IF built_by[1].script = "fingerprint-database-creator"
    THEN legacy_hash_function(pair[1], pair[2], pair[3])
    ELSE BuildKey(pair)

\* the pairs of file i that should have made the posting <<key, anchor_time>>
PairsFor(i, key, anchor_time) ==
    {n \in 1..Len(FilePairs(i)) :
        BuilderKey(FilePairs(i)[n]) = key /\ FilePairs(i)[n][4] = anchor_time}

\* the postings <<track i, anchor_time>> under key in the pickle
PostingsFor(i, key, anchor_time) ==
    {hj \in PostingsOf(i) :
        hj[1] = key /\ pickle_file[1][key][hj[2]][2] = anchor_time}

\* C17: after a build, the postings of every file are, key by key, the
\* (key, t_anchor) of its pair records: the anchor_time of a posting is the
\* time of the anchor peak of the pair that produced its key.
C17_PostingAnchorIsPairAnchor ==
    Built =>
        \A i \in 1..Len(mp3_files) :
            /\ \A hj \in PostingsOf(i) :
                   LET anchor_time == pickle_file[1][hj[1]][hj[2]][2]
                   IN  Cardinality(PostingsFor(i, hj[1], anchor_time))
                           = Cardinality(PairsFor(i, hj[1], anchor_time))
            /\ \A n \in 1..Len(FilePairs(i)) :
                   LET pair == FilePairs(i)[n]
                   IN  Cardinality(PostingsFor(i, BuilderKey(pair), pair[4]))
                           = Cardinality(PairsFor(i, BuilderKey(pair), pair[4]))

----------------------------------------------------------------------------
\* Confidence of match_song

\* the index with every posting list written twice
Doubled(db) == [h \in DOMAIN db |-> db[h] \o db[h]]

\* the query pair indices (from 0) with a posting of track_id under some key
\* of their neighbourhood
HitIndices(pairs, db, track_id) ==
    {i - 1 : i \in {k \in 1..Len(pairs) :
        LET nearby_hashes == get_nearby_hashes(pairs[k][1], pairs[k][2], pairs[k][3],
                                               FREQ_BIN, TIME_BIN)
        IN  \E n \in 1..Len(nearby_hashes) :
                /\ nearby_hashes[n] \in DOMAIN db
                /\ \E j \in 1..Len(db[nearby_hashes[n]]) :
                       db[nearby_hashes[n]][j][1] = track_id}}

\* the posting hits of the winning track, over all bins
WinnerPostingHits == Cardinality(MatchedPostings(match_counts, best_track_id))

\* C18: the confidence match_song returns is the number of distinct query
\* pair indices that hit a posting of the winning track through any key of
\* their neighbourhood, over the number of query pairs, and the same query
\* on the index with every posting duplicated returns the same confidence.
C18_ConfidenceCountsUniquePairs ==
    (Returned /\ fingerprint_pairs # << >>) =>
        /\ result.confidence.den = Len(fingerprint_pairs)
        /\ result.confidence.num =
               IF best_track_id = None THEN 0
               ELSE Cardinality(HitIndices(fingerprint_pairs, fingerprint_db[1],
                                           best_track_id[1]))
        /\ Match(fingerprint_pairs, Doubled(fingerprint_db[1]), tracks_metadata[1]).confidence
               = result.confidence

\* C18 witness: a match returned a winner with more posting hits than
\* query pairs that hit it
C18_Witness ==
    /\ Returned
    /\ best_track_id # None
    /\ result.confidence.num < WinnerPostingHits
    /\ result.confidence.num > 0

----------------------------------------------------------------------------
\* An index built with a target zone of its caller's choice, then queried

\* create_fingerprint_database takes target_zone_frames from its caller; the
\* matcher's queries are fingerprinted with TARGET_ZONE_FRAMES
NextParams ==
    \/ \E files \in Folders : \E target_zone_frames \in TargetZones :
           CreateFingerprintDatabase(files, target_zone_frames)
    \/ \E pairs \in Queries : MatchSong(pairs)

SpecParams == Init /\ [][NextParams]_vars

\* load_databases has assigned the pickle to the global fingerprint_db
Loaded == fingerprint_db # None /\ built_by # None

\* C19: an index load_databases has loaded was built with the parameters
\* of the querying code: a pickle built with another target zone is refused.
C19_MismatchedIndexRefused ==
    Loaded => built_by[1].target_zone_frames = TARGET_ZONE_FRAMES

\* C20: match_song does not return from a call whose loaded index has no keys.
C20_EmptyIndexIsFatal ==
    (Returned /\ fingerprint_db # None) => DOMAIN fingerprint_db[1] # {}

----------------------------------------------------------------------------
\* The matcher and the loaded index

\* C21: a match_song call that returns leaves the index and the metadata
\* store that its load_databases call returned as they were (same keys, same
\* postings in the same order), and writes neither file.
C21_MatcherNeverWrites ==
    [][outcome' = "returned" =>
           /\ fingerprint_db' = load_databases(clock).fingerprint_db
           /\ tracks_metadata' = load_databases(clock).tracks_metadata
           /\ pickle_file' = pickle_file
           /\ metadata_file' = metadata_file]_vars

\* C21 witness: a query returned from a non-empty index after looking up a
\* key the index does not hold
C21_Witness ==
    /\ Returned
    /\ DOMAIN fingerprint_db[1] # {}
    /\ \E i \in 1..Len(fingerprint_pairs) :
           \E h \in Keys(get_nearby_hashes(fingerprint_pairs[i][1], fingerprint_pairs[i][2],
                                           fingerprint_pairs[i][3], FREQ_BIN, TIME_BIN)) :
               h \notin DOMAIN fingerprint_db[1]

----------------------------------------------------------------------------
\* load_databases line by line, for threads of one matcher process, while
\* the builder script may run again as a process of its own.  Each action is
\* one stretch of load_databases in which the thread is not preempted.

\* the file of the database directory as seen from db_dir: the process runs
\* where database/ is, and no other db_dir has a database/ under it
FileIn(db_dir, file) == IF db_dir = "." THEN file ELSE None

\* lines 22-28: current_time = time.time(); the cache test, which returns the
\* two globals; otherwise open and unpickle the fingerprint file and assign
\* the global fingerprint_db
LoadFingerprints(t, db_dir) ==
    /\ callers[t].pc = "idle"
    /\ IF CacheValid(clock)
       THEN /\ callers' = [callers EXCEPT ![t] =
                               [pc |-> "returned", db_dir |-> db_dir, current_time |-> clock,
                                got |-> Some([db |-> fingerprint_db[1],
                                              metadata |-> tracks_metadata[1],
                                              read |-> {}])]]
            /\ UNCHANGED fingerprint_db
       ELSE IF FileIn(db_dir, pickle_file) = None
       THEN /\ callers' = [callers EXCEPT ![t] =
                               [pc |-> "raised", db_dir |-> db_dir, current_time |-> clock,
                                got |-> None]]
            /\ UNCHANGED fingerprint_db
       ELSE /\ callers' = [callers EXCEPT ![t] =
                               [pc |-> "metadata", db_dir |-> db_dir, current_time |-> clock,
                                got |-> None]]
            /\ fingerprint_db' = FileIn(db_dir, pickle_file)
    /\ UNCHANGED <<mp3_files, pickle_file, metadata_file, metadata_spotify, append_runs,
                   tracks_metadata, db_last_loaded, clock, fingerprint_pairs, match_counts,
                   best_track_id, result, outcome, built_by, call, returned>>

\* lines 30-32: open and parse the metadata file and assign the global
\* tracks_metadata; a missing file raises out of load_databases
LoadMetadata(t) ==
    /\ callers[t].pc = "metadata"
    /\ IF FileIn(callers[t].db_dir, metadata_file) = None
       THEN /\ callers' = [callers EXCEPT ![t].pc = "raised"]
            /\ UNCHANGED tracks_metadata
       ELSE /\ callers' = [callers EXCEPT ![t].pc = "stamp"]
            /\ tracks_metadata' = FileIn(callers[t].db_dir, metadata_file)
    /\ UNCHANGED <<mp3_files, pickle_file, metadata_file, metadata_spotify, append_runs,
                   fingerprint_db, db_last_loaded, clock, fingerprint_pairs, match_counts,
                   best_track_id, result, outcome, built_by, call, returned>>

\* lines 34-35: db_last_loaded = current_time; return fingerprint_db, tracks_metadata
LoadReturn(t) ==
    /\ callers[t].pc = "stamp"
    /\ db_last_loaded' = callers[t].current_time
    /\ callers' = [callers EXCEPT ![t].pc = "returned",
                                  ![t].got = Some([db |-> fingerprint_db[1],
                                                   metadata |-> tracks_metadata[1],
                                                   read |-> {"fingerprint_db.pkl",
                                                             "tracks_metadata.json"}])]
    /\ UNCHANGED <<mp3_files, pickle_file, metadata_file, metadata_spotify, append_runs,
                   fingerprint_db, tracks_metadata, clock, fingerprint_pairs, match_counts,
                   best_track_id, result, outcome, built_by, call, returned>>

\* the thread is done with what load_databases gave it and may call again
NextCall(t) ==
    /\ callers[t].pc \in {"returned", "raised"}
    /\ callers' = [callers EXCEPT ![t] = NotCalling]
    /\ UNCHANGED <<mp3_files, pickle_file, metadata_file, metadata_spotify, append_runs,
                   fingerprint_db, tracks_metadata, db_last_loaded, clock, fingerprint_pairs,
                   match_counts, best_track_id, result, outcome, built_by, call, returned>>

MaxCacheWindows == 2

\* time passes: half a cache window
Tick ==
    /\ clock < StartTime + MaxCacheWindows * DB_CACHE_DURATION
    /\ clock' = clock + DB_CACHE_DURATION \div 2
    /\ UNCHANGED <<mp3_files, pickle_file, metadata_file, metadata_spotify, append_runs,
                   fingerprint_db, tracks_metadata, db_last_loaded, fingerprint_pairs,
                   match_counts, best_track_id, result, outcome, built_by, call, returned,
                   callers>>

\* fingerprint_db.py run on a non-empty folder, whatever the matcher process
\* is doing: both files are replaced (taken here as one step)
Rebuild(files) ==
    /\ files # << >>
    /\ mp3_files' = files
    /\ pickle_file' = Some(BuildDatabase(EmptyDict, files, 1, TARGET_ZONE_FRAMES))
    /\ metadata_file' = Some(BuildMetadata(files))
    /\ built_by' = Some([script |-> "fingerprint_db",
                         target_zone_frames |-> TARGET_ZONE_FRAMES])
    /\ UNCHANGED <<metadata_spotify, append_runs, fingerprint_db, tracks_metadata,
                   db_last_loaded, clock, fingerprint_pairs, match_counts, best_track_id,
                   result, outcome, call, returned, callers>>

\* the folders the builder is run on while the matcher is up
ReloadFolders == {<<TrackA>>, <<TrackB>>, <<TrackA, TrackB>>}

NextReload ==
    \/ \E files \in ReloadFolders : Rebuild(files)
    \/ \E t \in Threads : LoadFingerprints(t, ".")
    \/ \E t \in Threads : LoadMetadata(t)
    \/ \E t \in Threads : LoadReturn(t)
    \/ \E t \in Threads : NextCall(t)
    \/ Tick

SpecReload == Init /\ [][NextReload]_vars

\* the listing of the folder a metadata store was written for
ListingOf(metadata) ==
    [i \in 1..Cardinality(DOMAIN metadata) |-> metadata[StrId(i)].filename]

\* db and metadata are the two files of one build
OneSnapshot(db, metadata) ==
    db = BuildDatabase(EmptyDict, ListingOf(metadata), 1, TARGET_ZONE_FRAMES)

\* C22: whatever the interleaving, the (index, metadata) a caller of
\* load_databases obtains are the two halves of one snapshot.
C22_AtomicSnapshot ==
    \A t \in Threads :
        callers[t].pc = "returned" =>
            OneSnapshot(callers[t].got[1].db, callers[t].got[1].metadata)

----------------------------------------------------------------------------
\* Batches with files that cannot be fingerprinted

MaxBatch == 2

\* the files of the batches: two tracks and a file librosa cannot decode
BatchLibrary == {TrackA, TrackB, Corrupt}

BatchFolders == Listings(BatchLibrary, MaxTracks)

RECURSIVE BatchMetadata(_)
\* the metadata_spotify.json objects with at most n entries, ids "0", "1", ...
BatchMetadata(n) ==
    IF n = 0 THEN {<< >>}
    ELSE LET shorter == BatchMetadata(n - 1)
         IN  shorter \cup {Append(m, <<StrId(Len(m)), e>>) : <<m, e>> \in
                              {me \in shorter \X ({[file |-> "found", audio |-> a] : a \in BatchLibrary}
                                                  \cup {[file |-> "not_found", audio |-> Corrupt]}) :
                                   Len(me[1]) = n - 1}}

NextBatch ==
    \/ \E files \in BatchFolders : CreateFingerprintDatabase(files, TARGET_ZONE_FRAMES)
    \/ \E metadata \in BatchMetadata(MaxBatch) : AppendFingerprints(metadata)

SpecBatch == Init /\ [][NextBatch]_vars

\* the positions of the files of a listing that can be fingerprinted
Fingerprintable(files) ==
    SelectSeq([i \in 1..Len(files) |-> i], LAMBDA i : files[i].readable)

\* an index with track id r of every posting replaced by ids[r]
Renumbered(db, ids) ==
    [h \in DOMAIN db |->
        [j \in 1..Len(db[h]) |-> <<IntId(ids[db[h][j][1][2]]), db[h][j][2]>>]]

\* the index create_fingerprint_database builds from the listing without the
\* files that cannot be fingerprinted, every track under the id it has in
\* the whole listing
CreatedWithoutFailing(files) ==
    LET ids == Fingerprintable(files)
    IN  Renumbered(BuildDatabase(EmptyDict, [r \in 1..Len(ids) |-> files[ids[r]]], 1,
                                 TARGET_ZONE_FRAMES), ids)

\* the index append_fingerprints leaves for the metadata without the entries
\* whose file is found and cannot be fingerprinted
AppendedWithoutFailing(database, metadata) ==
    AppendLoop([database |-> database, saved |-> FALSE],
               SelectSeq(metadata, LAMBDA e : ~(e[2].file = "found" /\ ~e[2].audio.readable)),
               1, ExistingTrackIds(database)).database

PostingsNamed(db, str_id) ==
    {hj \in UNION {{<<h, j>> : j \in 1..Len(db[h])} : h \in DOMAIN db} :
        Str(db[hj[1]][hj[2]][1]) = str_id}

\* C24: a run of append_fingerprints adds no posting for a metadata track id
\* that already had a posting in the pickle it loaded, whichever builder
\* wrote it, and a second run with the same metadata and files would leave
\* the index as the first left it.
C24_PresentTracksSkipped ==
    [][(append_runs' = append_runs + 1 /\ pickle_file' # None) =>
           LET database == IF pickle_file = None THEN EmptyDict ELSE pickle_file[1]
           IN  /\ \A n \in 1..Len(metadata_spotify') :
                      LET str_id == Str(metadata_spotify'[n][1])
                      IN  PostingsNamed(database, str_id) # {} =>
                              Cardinality(PostingsNamed(pickle_file'[1], str_id))
                                  = Cardinality(PostingsNamed(database, str_id))
               /\ AppendLoop([database |-> pickle_file'[1], saved |-> FALSE],
                             metadata_spotify', 1,
                             ExistingTrackIds(pickle_file'[1])).database = pickle_file'[1]]_vars

----------------------------------------------------------------------------
\* Completeness of create_fingerprint_pairs

\* the (i, j), i < j in the time-sorted order, whose peaks are at most a
\* target zone apart
EligiblePairs(sorted_peaks, target_zone_frames) ==
    {ij \in (1..Len(sorted_peaks)) \X (1..Len(sorted_peaks)) :
        /\ ij[1] < ij[2]
        /\ sorted_peaks[ij[2]][1] - sorted_peaks[ij[1]][1] <= target_zone_frames}

\* the record of the pair (i, j)
RecordOf(sorted_peaks, ij) ==
    <<sorted_peaks[ij[1]][2], sorted_peaks[ij[2]][2],
      sorted_peaks[ij[2]][1] - sorted_peaks[ij[1]][1], sorted_peaks[ij[1]][1]>>

\* C25: the records create_fingerprint_pairs emits are, as a multiset, the
\* records of all (i, j) with i < j in the time-sorted order and
\* t_j - t_i <= target_zone_frames: the break drops no eligible pair and
\* every eligible pair is emitted exactly once, with t_anchor = t_i.
C25_PairsComplete ==
    PairsCalled =>
        LET sorted_peaks == SortedPeaks(call[1].args[1])
            eligible == EligiblePairs(sorted_peaks, call[1].args[2])
            pairs == returned[1]
        IN  /\ Len(pairs) = Cardinality(eligible)
            /\ \A ij \in eligible :
                   Cardinality({n \in 1..Len(pairs) : pairs[n] = RecordOf(sorted_peaks, ij)})
                       = Cardinality({kl \in eligible :
                                         RecordOf(sorted_peaks, kl) = RecordOf(sorted_peaks, ij)})
            /\ \A n \in 1..Len(pairs) :
                   \E ij \in eligible : pairs[n] = RecordOf(sorted_peaks, ij)

\* C25 witness: under the default target zone the scan of the first anchor
\* stopped at a peak out of its zone, after a target exactly a zone away,
\* and a later anchor paired with the peak the first scan stopped at
C25_Witness ==
    /\ DefaultPairsCalled
    /\ LET sorted_peaks == SortedPeaks(call[1].args[1])
       IN  /\ Len(sorted_peaks) = 3
           /\ sorted_peaks[2][1] - sorted_peaks[1][1] = TARGET_ZONE_FRAMES
           /\ sorted_peaks[3][1] - sorted_peaks[1][1] > TARGET_ZONE_FRAMES
           /\ sorted_peaks[3][1] - sorted_peaks[2][1] <= TARGET_ZONE_FRAMES
    /\ Len(returned[1]) = 2

----------------------------------------------------------------------------
\* create_audio_fingerprint of src/audio-fingerprint.py on a magnitude
\* spectrogram.  A spectrogram is given by its non-zero cells: a function
\* from <<freq, time>> cells to positive magnitudes, zero everywhere else.

NEIGHBOURHOOD_SIZE == 30

\* magnitude[f, t]
MagnitudeAt(magnitude, f, t) ==
    IF <<f, t>> \in DOMAIN magnitude THEN magnitude[<<f, t>>] ELSE 0

\* an argmax that keeps the last of several equal maxima of the band
LastArgMax(magnitude, c) ==
    \A d \in DOMAIN magnitude :
        (d[2] = c[2] /\ BandOf(d[1]) = BandOf(c[1])) =>
            \/ magnitude[d] < magnitude[c]
            \/ (magnitude[d] = magnitude[c] /\ d[1] <= c[1])

\* max_idx = np.argmax(band_magnitude) + start is the bin of cell c: no bin
\* of its band in its frame is larger and no lower bin is as large
IsArgMax(magnitude, c) ==
    \A d \in DOMAIN magnitude :
        (d[2] = c[2] /\ BandOf(d[1]) = BandOf(c[1])) =>
            \/ magnitude[d] < magnitude[c]
            \/ (magnitude[d] = magnitude[c] /\ d[1] >= c[1])

\* lines 23-31: the non-zero cells of band_peaks.  The argmax of a band with
\* no non-zero bin writes a zero; bin 512 is in no band.
BandPeaks(magnitude) ==
    {c \in DOMAIN magnitude : BandOf(c[1]) # 0 /\ IsArgMax(magnitude, c)}

\* the cells under the filter window of the given size centred on <<f, t>>:
\* size // 2 cells before it and size - size // 2 - 1 after it, on both axes
InWindow(c, f, t, size) ==
    /\ f - size \div 2 <= c[1]
    /\ c[1] <= f + size - size \div 2 - 1
    /\ t - size \div 2 <= c[2]
    /\ c[2] <= t + size - size \div 2 - 1

\* scipy.ndimage.maximum_filter(band_peaks, size=(size, size))[f, t]
MaxFiltered(magnitude, f, t, size) ==
    LET under == {magnitude[c] : c \in {d \in BandPeaks(magnitude) : InWindow(d, f, t, size)}}
    IN  IF under = {} THEN 0 ELSE CHOOSE m \in under : \A n \in under : n <= m

\* peak_mask = (band_peaks == max_filtered) & (band_peaks > 0), as its set of cells
PeakMask(magnitude, neighbourhood_size) ==
    {c \in BandPeaks(magnitude) :
        magnitude[c] = MaxFiltered(magnitude, c[1], c[2], neighbourhood_size)}

MaxMagnitude == 2

\* the cells that may be non-zero: bins 2 and 3 (band [2, 8)) in frame 0,
\* bin 2 in frame 15, bin 3 in frame 16, bin 17 (band [8, 22)) in frame 1
\* and bin 40 (band [22, 64)) in frame 0
LoudCells == {<<2, 0>>, <<3, 0>>, <<2, 15>>, <<3, 16>>, <<17, 1>>, <<40, 0>>}

RECURSIVE Spectrograms(_)
\* the spectrograms whose non-zero cells are among the given ones
Spectrograms(cells) ==
    IF cells = {} THEN {EmptyDict}
    ELSE LET c == CHOOSE c \in cells : TRUE
             rest == Spectrograms(cells \ {c})
         IN  rest \cup {m @@ (c :> v) : <<m, v>> \in rest \X (1..MaxMagnitude)}

\* create_audio_fingerprint on a file whose spectrogram is magnitude, once in a run
CallCreateAudioFingerprint(magnitude) ==
    /\ call = None
    /\ call' = Some([function |-> "create_audio_fingerprint", args |-> <<magnitude>>])
    /\ returned' = Some(ArgWhere(PeakMask(magnitude, NEIGHBOURHOOD_SIZE)))
    /\ UNCHANGED <<mp3_files, pickle_file, metadata_file, metadata_spotify, append_runs,
                   fingerprint_db, tracks_metadata, db_last_loaded, clock,
                   fingerprint_pairs, match_counts, best_track_id, result, outcome, built_by,
                   callers>>

NextPeaks == \E magnitude \in Spectrograms(LoudCells) : CallCreateAudioFingerprint(magnitude)

SpecPeaks == Init /\ [][NextPeaks]_vars

FingerprintCalled == call # None /\ call[1].function = "create_audio_fingerprint"

\* C26: every peak (t, f) create_audio_fingerprint returns has a positive
\* magnitude, is the lowest bin among the largest of its band in frame t and
\* is as large as every band maximum under the 30 x 30 window around it; no
\* (t, f) is returned twice, a frame holds at most one peak per band (at
\* most 6), and the all-zero spectrogram gives no peak.
C26_PeakSetInvariant ==
    FingerprintCalled =>
        LET magnitude == call[1].args[1]
            fingerprint == returned[1]
        IN  /\ \A n \in 1..Len(fingerprint) :
                   LET t == fingerprint[n][1]
                       f == fingerprint[n][2]
                   IN  /\ MagnitudeAt(magnitude, f, t) > 0
                       /\ BandOf(f) # 0
                       /\ \A g \in BandEdges[BandOf(f)]..(BandEdges[BandOf(f) + 1] - 1) :
                              /\ MagnitudeAt(magnitude, g, t) <= MagnitudeAt(magnitude, f, t)
                              /\ g < f => MagnitudeAt(magnitude, g, t) < MagnitudeAt(magnitude, f, t)
                       /\ MagnitudeAt(magnitude, f, t) = MaxFiltered(magnitude, f, t, NEIGHBOURHOOD_SIZE)
                       /\ \A c \in BandPeaks(magnitude) :
                              InWindow(c, f, t, NEIGHBOURHOOD_SIZE) => magnitude[c] <= MagnitudeAt(magnitude, f, t)
            /\ \A n \in 1..Len(fingerprint) : \A m \in 1..Len(fingerprint) :
                   n # m =>
                       /\ fingerprint[n] # fingerprint[m]
                       /\ fingerprint[n][1] = fingerprint[m][1] =>
                              BandOf(fingerprint[n][2]) # BandOf(fingerprint[m][2])
            /\ \A t \in {fingerprint[n][1] : n \in 1..Len(fingerprint)} :
                   Cardinality({n \in 1..Len(fingerprint) : fingerprint[n][1] = t}) <= 6
            /\ magnitude = EmptyDict => fingerprint = << >>

\* C26 witness: a spectrogram with two equal maxima in one band of a frame
\* and a louder cell 15 frames later gave peaks, among them the lower of the
\* two equal bins
C26_Witness ==
    /\ FingerprintCalled
    /\ LET magnitude == call[1].args[1]
       IN  /\ MagnitudeAt(magnitude, 2, 0) = 1
           /\ MagnitudeAt(magnitude, 3, 0) = 1
           /\ MagnitudeAt(magnitude, 2, 15) = 2
    /\ \E n \in 1..Len(returned[1]) : returned[1][n] = <<0, 2>>
    /\ \A n \in 1..Len(returned[1]) : returned[1][n] # <<0, 3>>

----------------------------------------------------------------------------
\* create_audio_fingerprint of src/fingerprint-database-creator.py: the same
\* band maxima, then a binary search for the neighbourhood size

MIN_SIZE == 5

MAX_SIZE == 100

\* neighbourhood_size = (min_size + max_size) // 2
Midpoint(min_size, max_size) == (min_size + max_size) \div 2

\* an upper threshold of 12 times the target instead of 1.2 times
TooManyTenfold(num_peaks, total_desired_peaks) == num_peaks > total_desired_peaks * 12

\* num_peaks > total_desired_peaks * 1.2
TooMany(num_peaks, total_desired_peaks) == num_peaks * 10 > total_desired_peaks * 12

\* num_peaks < total_desired_peaks * 0.8
TooFew(num_peaks, total_desired_peaks) == num_peaks * 10 < total_desired_peaks * 8

RECURSIVE SizeSearch(_, _, _, _, _)
\* the while loop from (min_size, max_size), after the sizes in tried: the
\* sizes tried in order, how the loop ended and the mask it leaves
SizeSearch(magnitude, total_desired_peaks, min_size, max_size, tried) ==
    IF min_size > max_size
    THEN [tried |-> tried, ended |-> "exhausted",
          peak_mask |-> PeakMask(magnitude, tried[Len(tried)])]
    ELSE LET neighbourhood_size == Midpoint(min_size, max_size)
             num_peaks == Cardinality(PeakMask(magnitude, neighbourhood_size))
         IN  IF TooMany(num_peaks, total_desired_peaks)
             THEN SizeSearch(magnitude, total_desired_peaks, neighbourhood_size + 1, max_size,
                             Append(tried, neighbourhood_size))
             ELSE IF TooFew(num_peaks, total_desired_peaks)
             THEN SizeSearch(magnitude, total_desired_peaks, min_size, neighbourhood_size - 1,
                             Append(tried, neighbourhood_size))
             ELSE [tried |-> Append(tried, neighbourhood_size), ended |-> "break",
                   peak_mask |-> PeakMask(magnitude, neighbourhood_size)]

MaxDesiredPeaks == 3

\* the cells that may be non-zero: bin 2 in frames 0, 3, 20, 40 and 90
SearchCells == {2} \X {0, 3, 20, 40, 90}

\* lines 43-70 on the band maxima of a spectrogram, for
\* int(duration * target_peaks_per_second) = total_desired_peaks, once in a run
CallSizeSearch(magnitude, total_desired_peaks) ==
    /\ call = None
    /\ call' = Some([function |-> "size_search", args |-> <<magnitude, total_desired_peaks>>])
    /\ returned' = Some(SizeSearch(magnitude, total_desired_peaks, MIN_SIZE, MAX_SIZE, << >>))
    /\ UNCHANGED <<mp3_files, pickle_file, metadata_file, metadata_spotify, append_runs,
                   fingerprint_db, tracks_metadata, db_last_loaded, clock,
                   fingerprint_pairs, match_counts, best_track_id, result, outcome, built_by,
                   callers>>

NextSearch ==
    \E magnitude \in Spectrograms(SearchCells) :
        \E total_desired_peaks \in 0..MaxDesiredPeaks :
            CallSizeSearch(magnitude, total_desired_peaks)

SpecSearch == Init /\ [][NextSearch]_vars

SearchCalled == call # None /\ call[1].function = "size_search"

\* num_peaks is within 20% of total_desired_peaks
WithinTolerance(num_peaks, total_desired_peaks) ==
    /\ total_desired_peaks * 8 <= num_peaks * 10
    /\ num_peaks * 10 <= total_desired_peaks * 12

\* C27 as stated: the search ends after at most 7 filter evaluations, every
\* size it tries is in [5, 100], and the mask it leaves has a number of
\* peaks within 20% of the target.
C27_SearchAsStated ==
    SearchCalled =>
        /\ Len(returned[1].tried) <= 7
        /\ \A n \in 1..Len(returned[1].tried) :
               MIN_SIZE <= returned[1].tried[n] /\ returned[1].tried[n] <= MAX_SIZE
        /\ WithinTolerance(Cardinality(returned[1].peak_mask), call[1].args[2])

\* C27 amended: the search ends after at most 7 filter evaluations and at
\* least one, every size it tries is in [5, 100], and the mask it leaves is
\* the mask of the last size tried; the number of its peaks is within 20% of
\* the target exactly when the loop ended by its break, and when it did not
\* no size tried was within 20% of the target.
C27_SearchAmended ==
    SearchCalled =>
        LET tried == returned[1].tried
            magnitude == call[1].args[1]
            total_desired_peaks == call[1].args[2]
        IN  /\ 1 <= Len(tried) /\ Len(tried) <= 7
            /\ \A n \in 1..Len(tried) : MIN_SIZE <= tried[n] /\ tried[n] <= MAX_SIZE
            /\ returned[1].peak_mask = PeakMask(magnitude, tried[Len(tried)])
            /\ returned[1].ended = "break" <=>
                   WithinTolerance(Cardinality(returned[1].peak_mask), total_desired_peaks)
            /\ returned[1].ended = "exhausted" =>
                   \A n \in 1..Len(tried) :
                       ~WithinTolerance(Cardinality(PeakMask(magnitude, tried[n])),
                                        total_desired_peaks)

\* C27 witness: a search tried 7 sizes, found none within 20% of a positive
\* target and left a mask with peaks
C27_Witness ==
    /\ SearchCalled
    /\ Len(returned[1].tried) = 7
    /\ returned[1].ended = "exhausted"
    /\ call[1].args[2] > 0
    /\ returned[1].peak_mask # {}

----------------------------------------------------------------------------
\* The cache of load_databases, one caller at a time

\* the db_dir arguments: the directory that holds database/ and one that does not
DbDirs == {".", "/elsewhere"}

\* a metadata_spotify.json with the one track A, whose file is found
CacheMetadata == {<< <<StrId(0), [file |-> "found", audio |-> TrackA]>> >>}

\* one thread calls load_databases again and again while time passes; the
\* files are written by fingerprint_db.py at any time and by
\* fingerprint_db_2.py before the first load
NextCache ==
    \/ \E files \in ReloadFolders : Rebuild(files)
    \/ \E metadata \in CacheMetadata : AppendFingerprints(metadata)
    \/ \E db_dir \in DbDirs : LoadFingerprints(1, db_dir)
    \/ LoadMetadata(1)
    \/ LoadReturn(1)
    \/ NextCall(1)
    \/ Tick

SpecCache == Init /\ [][NextCache]_vars

\* a load succeeded less than DB_CACHE_DURATION before now
FreshlyLoaded == db_last_loaded > 0 /\ clock - db_last_loaded < DB_CACHE_DURATION

\* C28: a load_databases call made less than DB_CACHE_DURATION after a
\* successful load returns the two cached objects without reading a file,
\* whatever its db_dir, and until then the two globals do not change; a call
\* made at or after expiry (or before any successful load) opens the
\* fingerprint file, and returns only after reading both files; and
\* db_last_loaded changes only in a call that read both files, to the time
\* that call began.
C28_IndexCache ==
    [][/\ (callers[1].pc = "idle" /\ callers'[1].pc # "idle") =>
              IF FreshlyLoaded
              THEN /\ callers'[1].pc = "returned"
                   /\ callers'[1].got = Some([db |-> fingerprint_db[1],
                                              metadata |-> tracks_metadata[1],
                                              read |-> {}])
              ELSE /\ callers'[1].pc \in {"metadata", "raised"}
                   /\ callers'[1].pc = "metadata" <=> FileIn(callers'[1].db_dir, pickle_file) # None
       /\ FreshlyLoaded =>
              /\ fingerprint_db' = fingerprint_db
              /\ tracks_metadata' = tracks_metadata
       /\ (callers[1].pc # "returned" /\ callers'[1].pc = "returned" /\ ~FreshlyLoaded) =>
              callers'[1].got[1].read = {"fingerprint_db.pkl", "tracks_metadata.json"}
       /\ db_last_loaded' # db_last_loaded =>
              /\ callers'[1].pc = "returned"
              /\ callers'[1].got[1].read = {"fingerprint_db.pkl", "tracks_metadata.json"}
              /\ db_last_loaded' = callers[1].current_time]_vars

\* C28 witness: a call with another db_dir, made half a cache window after a
\* load that followed an earlier load by a whole window, returned the cached
\* objects without reading a file
C28_Witness ==
    /\ callers[1].pc = "returned"
    /\ callers[1].db_dir = "/elsewhere"
    /\ callers[1].got[1].read = {}
    /\ db_last_loaded = StartTime + DB_CACHE_DURATION
    /\ callers[1].current_time = db_last_loaded + DB_CACHE_DURATION \div 2

----------------------------------------------------------------------------
\* src/lambda_handler.py: the request handler

\* lines 22-23: the two paths the container downloaded the database files to
db_path_fingerprint_local == "/tmp/databases/fingerprint_db.pkl"
db_path_metadata_local == "/tmp/databases/tracks_metadata.json"

\* the objects of the bucket that s3.download_file (line 63) can fetch; any
\* other key makes the download raise
Bucket ==
    [fileKey \in {"samples/a.mp3", "samples/b.mp3", "samples/noise.mp3"} |->
        CASE fileKey = "samples/a.mp3" -> TrackA
          [] fileKey = "samples/b.mp3" -> TrackB
          [] OTHER -> Corrupt]

\* the events: a warm-up GET, and POSTs whose body (lines 43-49) has a
\* fileKey or none
Events ==
    {[httpMethod |-> m, body |-> [fileKey |-> k]] :
        m \in {"GET", "POST"},
        k \in {None} \cup {Some(key) : key \in DOMAIN Bucket \cup {"samples/absent.mp3"}}}

\* the binding of a call's positional arguments to the parameters of
\* song_matcher.match_song(fingerprint_pairs, db_dir="."): TypeError for
\* none or more than two
BindMatchSong(args) ==
    IF Len(args) \notin 1..2
    THEN [raised |-> TRUE, fingerprint_pairs |-> << >>, db_dir |-> "."]
    ELSE [raised |-> FALSE, fingerprint_pairs |-> args[1],
          db_dir |-> IF Len(args) = 2 THEN args[2] ELSE "."]

Response(statusCode, body) == [statusCode |-> statusCode, body |-> body]

\* lines 73-84 after match_song returned m: track_metadata["spotify"] raises
\* for None and for a record without that key
SuccessResponse(m) ==
    IF m.track = None \/ "spotify" \notin DOMAIN m.track[1]
    THEN Response(500, [error |-> "track_metadata"])
    ELSE Response(200, [track_metadata |-> m.track[1].spotify, confidence |-> m.confidence])

\* lambda_handler(event, context), lines 29-94; every exception of the try
\* block becomes a 500 response
LambdaHandler(event) ==
    /\ call = None
    /\ call' = Some([function |-> "lambda_handler", args |-> <<event>>])
    /\ IF event.httpMethod = "GET"
       THEN /\ returned' = Some(Response(200, [status |-> "warmed"]))
            /\ UNCHANGED <<fingerprint_db, tracks_metadata, db_last_loaded, fingerprint_pairs,
                           match_counts, best_track_id, result, outcome>>
       ELSE IF event.body.fileKey = None
       THEN /\ returned' = Some(Response(400, [error |-> "Missing fileKey parameter"]))
            /\ UNCHANGED <<fingerprint_db, tracks_metadata, db_last_loaded, fingerprint_pairs,
                           match_counts, best_track_id, result, outcome>>
       ELSE IF event.body.fileKey[1] \notin DOMAIN Bucket
       THEN /\ returned' = Some(Response(500, [error |-> "download_file"]))
            /\ UNCHANGED <<fingerprint_db, tracks_metadata, db_last_loaded, fingerprint_pairs,
                           match_counts, best_track_id, result, outcome>>
       ELSE IF ~Bucket[event.body.fileKey[1]].readable
       THEN /\ returned' = Some(Response(500, [error |-> "create_audio_fingerprint"]))
            /\ UNCHANGED <<fingerprint_db, tracks_metadata, db_last_loaded, fingerprint_pairs,
                           match_counts, best_track_id, result, outcome>>
       ELSE \E bound \in {BindMatchSong(<<QueryPairs(Bucket[event.body.fileKey[1]]),
                                          db_path_fingerprint_local,
                                          db_path_metadata_local>>)} :
            IF bound.raised
            THEN /\ returned' = Some(Response(500, [error |-> "match_song() takes from 1 to 2 positional arguments but 3 were given"]))
                 /\ UNCHANGED <<fingerprint_db, tracks_metadata, db_last_loaded,
                                fingerprint_pairs, match_counts, best_track_id, result,
                                outcome>>
            ELSE IF ~CacheValid(clock) /\ FileIn(bound.db_dir, pickle_file) = None
            THEN /\ returned' = Some(Response(500, [error |-> "fingerprint_db.pkl"]))
                 /\ outcome' = "raised"
                 /\ fingerprint_pairs' = bound.fingerprint_pairs
                 /\ UNCHANGED <<fingerprint_db, tracks_metadata, db_last_loaded, match_counts,
                                best_track_id, result>>
            ELSE IF ~CacheValid(clock) /\ FileIn(bound.db_dir, metadata_file) = None
            THEN /\ returned' = Some(Response(500, [error |-> "tracks_metadata.json"]))
                 /\ outcome' = "raised"
                 /\ fingerprint_pairs' = bound.fingerprint_pairs
                 /\ fingerprint_db' = pickle_file
                 /\ UNCHANGED <<tracks_metadata, db_last_loaded, match_counts, best_track_id,
                                result>>
            ELSE \E loaded \in {load_databases(clock)} :
                 \E m \in {Match(bound.fingerprint_pairs, loaded.fingerprint_db[1],
                                 loaded.tracks_metadata[1])} :
                     /\ returned' = Some(SuccessResponse(m))
                     /\ fingerprint_db' = Some(m.db)
                     /\ tracks_metadata' = Some(m.metadata)
                     /\ db_last_loaded' = loaded.db_last_loaded
                     /\ fingerprint_pairs' = bound.fingerprint_pairs
                     /\ outcome' = "returned"
                     /\ match_counts' = m.match_counts
                     /\ best_track_id' = m.best_track_id
                     /\ result' = [track |-> m.track, confidence |-> m.confidence,
                                   time_offset |-> m.time_offset]
    /\ UNCHANGED <<mp3_files, pickle_file, metadata_file, metadata_spotify, append_runs,
                   clock, built_by, callers>>

\* the container serves one event over the database files that a build left
NextHandler ==
    \/ \E files \in Folders : CreateFingerprintDatabase(files, TARGET_ZONE_FRAMES)
    \/ \E event \in Events : LambdaHandler(event)

SpecHandler == Init /\ [][NextHandler]_vars

\* what match_song makes of the audio of an event over the database files
Identified(event) ==
    Match(QueryPairs(Bucket[event.body.fileKey[1]]), pickle_file[1], metadata_file[1])

\* the event carries the fileKey of readable audio that the index, as built,
\* matches to one of its tracks
MatchesIndexedTrack(event) ==
    /\ event.httpMethod # "GET"
    /\ event.body.fileKey # None
    /\ event.body.fileKey[1] \in DOMAIN Bucket
    /\ Bucket[event.body.fileKey[1]].readable
    /\ pickle_file # None
    /\ metadata_file # None
    /\ Identified(event).track # None

\* C29: the handler answers a GET with 200 and status warmed and leaves the
\* matcher's globals alone; it answers 400 exactly when the event is not a
\* GET and has no fileKey; and an event whose fileKey names audio that
\* matches an indexed track gets 200 with the confidence match_song computes.
C29_HandlerOutcome ==
    [][(call = None /\ call' # None /\ call'[1].function = "lambda_handler") =>
          \A event \in {call'[1].args[1]} :
              /\ event.httpMethod = "GET" =>
                     /\ returned'[1] = Response(200, [status |-> "warmed"])
                     /\ UNCHANGED <<fingerprint_db, tracks_metadata, db_last_loaded, outcome>>
              /\ returned'[1].statusCode = 400 <=>
                     (event.httpMethod # "GET" /\ event.body.fileKey = None)
              /\ MatchesIndexedTrack(event) =>
                     /\ returned'[1].statusCode = 200
                     /\ returned'[1].body.confidence = Identified(event).confidence]_vars

----------------------------------------------------------------------------
\* The key of an indexed pair against the keys looked up for a query pair

\* bins and frame differences at both ends of the 10-bit field, of both
\* parities, in one bin and one bin apart
PairFreqs == {0, 1, 2, 1023}
PairDeltas == {0, 1, 2, 1023}

\* the builder's key of the pair indexed (hash_function on the quantised
\* fields) and get_nearby_hashes of the pair queried, called directly
CallKeysOfTwoPairs(indexed, queried) ==
    /\ call = None
    /\ call' = Some([function |-> "hash_function", args |-> <<indexed, queried>>])
    /\ returned' = Some([key |-> BuildKey(indexed),
                         hashes |-> get_nearby_hashes(queried[1], queried[2], queried[3],
                                                      FREQ_BIN, TIME_BIN)])
    /\ UNCHANGED <<mp3_files, pickle_file, metadata_file, metadata_spotify, append_runs,
                   fingerprint_db, tracks_metadata, db_last_loaded, clock,
                   fingerprint_pairs, match_counts, best_track_id, result, outcome, built_by,
                   callers>>

NextTwoPairs ==
    \E indexed \in PairFreqs \X PairFreqs \X PairDeltas :
        \E queried \in PairFreqs \X PairFreqs \X PairDeltas :
            CallKeysOfTwoPairs(indexed, queried)

SpecTwoPairs == Init /\ [][NextTwoPairs]_vars

\* the last direct call computed the keys of two pairs
TwoPairsCalled == call # None /\ call[1].function = "hash_function"

\* C30: for two pairs with all fields in [0, 1024), the key of one equals the
\* primary key of the other exactly when their three quantised fields are
\* equal, and the key of the indexed pair is among the keys looked up for the
\* queried pair exactly when the indexed pair's quantised fields are those of
\* the queried pair or of one of its in-range one-step variants.
C30_KeyInjective ==
    (TwoPairsCalled /\ InFieldRange(call[1].args[1]) /\ InFieldRange(call[1].args[2])) =>
        LET indexed == Quantised(call[1].args[1])
            queried == Quantised(call[1].args[2])
        IN  /\ returned[1].key = returned[1].hashes[1] <=> indexed = queried
            /\ returned[1].key \in Keys(returned[1].hashes) <=>
                   indexed \in {queried} \cup OneStepAway(queried)

\* C30 witness: two different pairs with the same quantised fields got the
\* same key
C30_Witness ==
    /\ TwoPairsCalled
    /\ call[1].args = <<<<1, 2, 1>>, <<0, 2, 0>>>>
    /\ returned[1].key = returned[1].hashes[1]

====
